---- MODULE Spec2Model ----
(***************************************************************************)
(* Dfsc Installer: the addon installation and reconciliation engine.       *)
(*                                                                         *)
(* The model covers the main-process IPC handlers for install, uninstall   *)
(* and reconcile (src/main/ipc.ts), the persisted store                    *)
(* (src/unnamed/part_007), the install pipeline and the atomic installer   *)
(* (src/main/installer.ts), the package resolvers, the streaming extractor *)
(* and the renderer's busy gate (src/renderer/src/ui/ActionsPane.tsx).     *)
(***************************************************************************)
EXTENDS Integers, Sequences, FiniteSets, TLC

\* ------------------------------------------------------------------------
\* Bounds of the model
\* ------------------------------------------------------------------------
MaxQueue == 3      \* progress events in flight from main to renderer
MaxClock == 2      \* timestamps handed out by `new Date()`
MaxEntries == 2    \* entries of an archive fed to the streaming extractor

\* ------------------------------------------------------------------------
\* Basic values
\* ------------------------------------------------------------------------
Null == "null"
Absent == "absent"
Unknown == "unknown"

OpIds == {1, 2}
AddonIds == {"a1"}
ChannelKeys == <<"stable", "beta", "dev">>
ChannelSet == {"stable", "beta", "dev"}
Versions == {"1.0", "2.0"}
Bases == {"p1"}

\* String.prototype.toLowerCase over the strings the model uses.
LowerTable ==
  [s \in {"A", "B", "W", "Community", "AB12", "Manifest.json"} |->
     CASE s = "A" -> "a"
       [] s = "B" -> "b"
       [] s = "W" -> "w"
       [] s = "Community" -> "community"
       [] s = "AB12" -> "ab12"
       [] s = "Manifest.json" -> "manifest.json"]

toLowerCase(s) == IF s \in DOMAIN LowerTable THEN LowerTable[s] ELSE s

LowerPath(p) == [i \in 1..Len(p) |-> toLowerCase(p[i])]

Last(s) == s[Len(s)]
Front(s) == SubSeq(s, 1, Len(s) - 1)
Reverse(s) == [i \in 1..Len(s) |-> s[Len(s) + 1 - i]]
Range(s) == {s[i] : i \in 1..Len(s)}

\* String.prototype.split on the path separators, over the strings the model
\* uses: the segments path.join sees in a name.
splitName(name) ==
  CASE name = "A/inner" -> <<"A", "inner">>
    [] name = ".A/inner.dsfc-stage" -> <<".A", "inner.dsfc-stage">>
    [] name = ".A/inner.dsfc-backup" -> <<".A", "inner.dsfc-backup">>
    [] OTHER -> <<name>>

RECURSIVE SumSeq(_)
SumSeq(s) == IF s = <<>> THEN 0 ELSE s[1] + SumSeq(Tail(s))

\* Array.filter keeping the first element of every key (the "seen" Set idiom).
DedupeByKey(s, Key(_)) ==
  LET keep[i \in 0..Len(s)] ==
        IF i = 0 THEN <<>>
        ELSE IF \E j \in 1..(i - 1) : Key(s[j]) = Key(s[i]) THEN keep[i - 1]
        ELSE Append(keep[i - 1], s[i])
  IN keep[Len(s)]

\* ------------------------------------------------------------------------
\* Extracted trees.  A tree is the content of the extraction directory:
\* the set of its directories and the set of its files, each a path relative
\* to the extraction directory; pkgVersion is the package_version written in
\* the manifest.json files of the archive and fsize the size of each file.
\* ------------------------------------------------------------------------
isWin == TRUE   \* process.platform === 'win32' (the app is Windows-only)

\* The order in which readdir lists names.
NameOrder == <<"A", "B", "Community", "W", "a1", "docs", "inner">>
FileOrder == <<"data.bin", "manifest.json", "readme.txt", "x..y">>

isDirectory(t, p) == p = <<>> \/ p \in t.dirs
isFile(t, p) == p \in t.files
pathExists(t, p) == isDirectory(t, p) \/ isFile(t, p)

listTopLevelDirs(t, dir) ==
  IF isDirectory(t, dir)
  THEN SelectSeq(NameOrder, LAMBDA n : Append(dir, n) \in t.dirs)
  ELSE <<>>

listTopLevelFiles(t, dir) ==
  IF isDirectory(t, dir)
  THEN SelectSeq(FileOrder, LAMBDA n : Append(dir, n) \in t.files)
  ELSE <<>>

IsPrefixPath(p, q) == Len(p) <= Len(q) /\ SubSeq(q, 1, Len(p)) = p

listFilesRecursive(t, root) == {f \in t.files : IsPrefixPath(root, f)}

sumDirBytes(t, dirPath) == Cardinality(listFilesRecursive(t, dirPath)) * t.fsize

basename(p) == IF p = <<>> THEN "extracted" ELSE Last(p)

\* installer.ts 425-468
onlyExtractDir(t) == <<(<<>>)>>

buildCandidateRoots(t) ==
  LET topDirs == listTopLevelDirs(t, <<>>)
      hasWrapper == Len(topDirs) = 1
      wrapperRoot == IF hasWrapper THEN <<topDirs[1]>> ELSE Null
      r1 == <<(<<>>)>>
      r2 == IF hasWrapper THEN Append(r1, wrapperRoot) ELSE r1
      r3 == IF "Community" \in Range(topDirs) THEN Append(r2, <<"Community">>) ELSE r2
      r4 == IF hasWrapper /\ "Community" \in Range(listTopLevelDirs(t, wrapperRoot))
            THEN Append(r3, Append(wrapperRoot, "Community"))
            ELSE r3
  IN DedupeByKey(r4, LowerPath)

isValidPackageFolder(t, folderPath) ==
  LET hasManifest == pathExists(t, Append(folderPath, "manifest.json"))
      hasLayout == pathExists(t, Append(folderPath, "layout.json"))
  IN [ok |-> hasManifest, hasManifest |-> hasManifest, hasLayout |-> hasLayout]

\* Truthiness of a JavaScript object used as a condition: an object is truthy
\* whatever its fields hold.
JsTruthyObject(obj) == obj = obj

SkipDir(name) ==
  LET SKIP_NAMES == {"node_modules", "__macosx", ".git", ".svn", ".hg"}
      StartsWithDot == name \in {".git", ".svn", ".hg"}
  IN StartsWithDot \/ toLowerCase(name) \in SKIP_NAMES

RECURSIVE fmWalk(_, _, _, _, _, _)
RECURSIVE fmLoop(_, _, _, _, _, _, _, _)
fmWalk(t, current, depth, visited, maxDepth, maxDirsVisited) ==
  IF depth > maxDepth \/ ~isDirectory(t, current)
  THEN [res |-> Null, visited |-> visited]
  ELSE IF \E f \in t.files :
            /\ Len(f) = Len(current) + 1
            /\ IsPrefixPath(current, f)
            /\ toLowerCase(Last(f)) = "manifest.json"
  THEN [res |-> current, visited |-> visited]
  ELSE fmLoop(t, current, listTopLevelDirs(t, current), 1, depth, visited,
              maxDepth, maxDirsVisited)
fmLoop(t, current, kids, i, depth, visited, maxDepth, maxDirsVisited) ==
  IF i > Len(kids) THEN [res |-> Null, visited |-> visited]
  ELSE IF SkipDir(kids[i])
  THEN fmLoop(t, current, kids, i + 1, depth, visited, maxDepth, maxDirsVisited)
  ELSE IF visited + 1 > maxDirsVisited
  THEN [res |-> Null, visited |-> visited + 1]
  ELSE LET r == fmWalk(t, Append(current, kids[i]), depth + 1, visited + 1,
                       maxDepth, maxDirsVisited)
       IN IF r.res # Null THEN r
          ELSE fmLoop(t, current, kids, i + 1, depth, r.visited,
                      maxDepth, maxDirsVisited)

findManifestDirWithin(t, root, maxDepth, maxDirsVisited) ==
  fmWalk(t, root, 0, 0, maxDepth, maxDirsVisited).res

RECURSIVE spWalk(_, _, _, _, _, _)
RECURSIVE spLoop(_, _, _, _, _, _, _, _)
spWalk(t, current, depth, st, maxDepth, maxDirsVisited) ==
  IF st.capped \/ depth > maxDepth \/ ~isDirectory(t, current) THEN st
  ELSE spLoop(t, current, listTopLevelDirs(t, current), 1, depth, st,
              maxDepth, maxDirsVisited)
spLoop(t, current, kids, i, depth, st, maxDepth, maxDirsVisited) ==
  IF i > Len(kids) \/ st.capped THEN st
  ELSE IF SkipDir(kids[i])
  THEN spLoop(t, current, kids, i + 1, depth, st, maxDepth, maxDirsVisited)
  ELSE IF st.dirsVisited + 1 > maxDirsVisited
  THEN [st EXCEPT !.dirsVisited = @ + 1, !.capped = TRUE]
  ELSE LET p == Append(current, kids[i])
           v == isValidPackageFolder(t, p)
           st1 == [st EXCEPT !.dirsVisited = @ + 1]
       IN IF v.ok
          THEN spLoop(t, current, kids, i + 1, depth,
                      [st1 EXCEPT !.packages =
                         Append(@, [folderName |-> kids[i], folderPath |-> p])],
                      maxDepth, maxDirsVisited)
          ELSE spLoop(t, current, kids, i + 1, depth,
                      spWalk(t, p, depth + 1, st1, maxDepth, maxDirsVisited),
                      maxDepth, maxDirsVisited)

scanForPackages(t, root, maxDepth, maxDirsVisited) ==
  spWalk(t, root, 0, [packages |-> <<>>, dirsVisited |-> 0, capped |-> FALSE],
         maxDepth, maxDirsVisited)

\* ------------------------------------------------------------------------
\* Package resolvers (installer.ts).  A unit is [folderName, srcPath]; srcPath
\* is a path relative to the extraction directory, and RawRoot is
\* join(workDir, 'rawroot') seen from there.
\* ------------------------------------------------------------------------
RawRoot == <<"..", "rawroot">>

\* Case-insensitive match of expectedName among names (Array.find), else Null.
FindNameCI(names, expectedName) ==
  LET hits == SelectSeq(names, LAMBDA n : toLowerCase(n) = toLowerCase(expectedName))
  IN IF hits = <<>> THEN Null ELSE hits[1]

endsWithExpected(root, expectedName) ==
  toLowerCase(basename(root)) = toLowerCase(expectedName)

directPathOf(t, root, expectedName) ==
  LET expectedPath == IF endsWithExpected(root, expectedName) THEN root
                      ELSE root \o splitName(expectedName)
      match == FindNameCI(listTopLevelDirs(t, root), expectedName)
  IN IF ~endsWithExpected(root, expectedName) /\ isWin /\ match # Null
     THEN Append(root, match)
     ELSE expectedPath

wrapperCandidate(t, root, w, expectedName) ==
  LET match == FindNameCI(listTopLevelDirs(t, Append(root, w)), expectedName)
  IN IF isWin /\ match # Null THEN Append(Append(root, w), match)
     ELSE Append(root, w) \o splitName(expectedName)

tryResolveAt(t, p) ==
  IF isValidPackageFolder(t, p).ok THEN p
  ELSE findManifestDirWithin(t, p, 3, 3000)

\* First non-Null result of f over the sequence s, else Null.
FirstHit(s, F(_)) ==
  LET idx == {i \in 1..Len(s) : F(s[i]) # Null}
  IN IF idx = {} THEN Null
     ELSE F(s[CHOOSE i \in idx : \A j \in idx : i <= j])

resolveExpectedAt(t, root, expectedName) ==
  LET resolvedDirect == tryResolveAt(t, directPathOf(t, root, expectedName))
  IN IF resolvedDirect # Null THEN resolvedDirect
     ELSE FirstHit(listTopLevelDirs(t, root),
                   LAMBDA w : tryResolveAt(t, wrapperCandidate(t, root, w, expectedName)))

RECURSIVE foundAtRoot(_, _, _)
foundAtRoot(t, root, names) ==
  IF names = <<>> THEN <<>>
  ELSE LET r == resolveExpectedAt(t, root, names[1])
       IN (IF r = Null THEN <<>> ELSE <<[folderName |-> names[1], srcPath |-> r]>>)
          \o foundAtRoot(t, root, Tail(names))

ConcatMap(s, F(_)) ==
  LET cm[i \in 0..Len(s)] == IF i = 0 THEN <<>> ELSE cm[i - 1] \o F(s[i])
  IN cm[Len(s)]

autoDetectFallback(t) ==
  LET detectedAll == ConcatMap(buildCandidateRoots(t),
                       LAMBDA root : scanForPackages(t, root, 6, 3000).packages)
      detected == DedupeByKey(detectedAll, LAMBDA h : LowerPath(h.folderPath))
  IN IF Len(detected) = 1
     THEN [ok |-> TRUE,
           packages |-> <<[folderName |-> detected[1].folderName,
                           srcPath |-> detected[1].folderPath]>>]
     ELSE [ok |-> FALSE, packages |-> <<>>]

findExpectedPackages(t, packageFolderNames) ==
  LET roots == buildCandidateRoots(t)
      good == SelectSeq(roots, LAMBDA root :
                Len(foundAtRoot(t, root, packageFolderNames)) = Len(packageFolderNames))
  IN IF good # <<>>
     THEN [ok |-> TRUE, packages |-> foundAtRoot(t, good[1], packageFolderNames)]
     ELSE autoDetectFallback(t)

autoDetectPackages(t) ==
  LET hitsAt(root) == SelectSeq(listTopLevelDirs(t, root),
                        LAMBDA d : JsTruthyObject(isValidPackageFolder(t, Append(root, d))))
      good == SelectSeq(buildCandidateRoots(t), LAMBDA root : hitsAt(root) # <<>>)
  IN IF good # <<>>
     THEN [root |-> good[1], folderNames |-> hitsAt(good[1])]
     ELSE [root |-> <<>>, folderNames |-> <<>>]

\* Strict mode of installAddon: explicit names or auto-detect.
resolveStrict(t, addon) ==
  IF Len(addon.packageFolderNames) > 0
  THEN findExpectedPackages(t, addon.packageFolderNames)
  ELSE LET res == autoDetectPackages(t)
       IN IF Len(res.folderNames) = 0 THEN [ok |-> FALSE, packages |-> <<>>]
          ELSE [ok |-> TRUE,
                packages |-> [i \in 1..Len(res.folderNames) |->
                                [folderName |-> res.folderNames[i],
                                 srcPath |-> Append(res.root, res.folderNames[i])]]]

\* resolveRawInstallSources with explicit folder names: per name, the first
\* candidate root where the name (or <root>/<wrapper>/<name>) is a directory.
rawFindAt(t, root, expectedName) ==
  LET directPath == directPathOf(t, root, expectedName)
  IN IF isDirectory(t, directPath) THEN directPath
     ELSE LET hits == SelectSeq(listTopLevelDirs(t, root), LAMBDA w :
                        isDirectory(t, wrapperCandidate(t, root, w, expectedName)))
          IN IF hits = <<>> THEN Null
             ELSE wrapperCandidate(t, root, hits[1], expectedName)

rawFind(t, expectedName) ==
  FirstHit(buildCandidateRoots(t), LAMBDA root : rawFindAt(t, root, expectedName))

\* installer.ts 930: an empty name, or one holding "..", "/" or "\".
isUnsafeNever(name) == FALSE

isUnsafeName(name) == name = "" \/ name \in {"x..y"}

\* The bundle fse.copy builds under rawRoot: every top-level entry with a safe name.
rawBundle(t) ==
  LET keep(p) == Len(p) > 0 /\ ~isUnsafeName(p[1])
  IN [t EXCEPT !.dirs = @ \cup {RawRoot} \cup {RawRoot \o p : p \in {d \in t.dirs : keep(d)}},
               !.files = @ \cup {RawRoot \o p : p \in {f \in t.files : keep(f)}}]

\* Result: ok, the units and the work tree (with the bundle when one is made).
resolveRawInstallSources(t, addonId, expectedFolderNames) ==
  IF Len(expectedFolderNames) > 0
  THEN IF \E i \in 1..Len(expectedFolderNames) : rawFind(t, expectedFolderNames[i]) = Null
       THEN [ok |-> FALSE, packages |-> <<>>, tree |-> t]
       ELSE [ok |-> TRUE,
             packages |-> [i \in 1..Len(expectedFolderNames) |->
                             [folderName |-> expectedFolderNames[i],
                              srcPath |-> rawFind(t, expectedFolderNames[i])]],
             tree |-> t]
  ELSE LET dirs == listTopLevelDirs(t, <<>>)
           files == listTopLevelFiles(t, <<>>)
       IN IF Len(dirs) = 1 /\ Len(files) = 0
          THEN [ok |-> TRUE,
                packages |-> <<[folderName |-> dirs[1], srcPath |-> <<dirs[1]>>]>>,
                tree |-> t]
          ELSE [ok |-> TRUE,
                packages |-> <<[folderName |-> addonId, srcPath |-> RawRoot]>>,
                tree |-> rawBundle(t)]

\* installer.ts 420-423: Math.ceil(installedBytes * 1.2 + buffer), which over
\* the byte counts of the model is the integer computed here.
requiredBytesRoundedDown(installedBytes) ==
  LET buffer == 200 * 1024 * 1024
  IN (installedBytes * 6) \div 5 + buffer

requiredBytesFromInstalledSize(installedBytes) ==
  LET buffer == 200 * 1024 * 1024
  IN (installedBytes * 6 + 4) \div 5 + buffer

\* ------------------------------------------------------------------------
\* Archives the model draws from: zero, one or two packages (with the
\* manifest at the package root, one level deeper, or missing), an optional
\* documentation folder and an optional loose file, laid out at the root,
\* under a wrapper, under Community or under wrapper/Community.
\* ------------------------------------------------------------------------
\* A package kind is "none", "direct", "nested" or "bare".
MakeTree(layout, kindA, kindB, docs, loose, ver, fsize) ==
  LET PkgDirs(name, kind) ==
        CASE kind = "none" -> {}
          [] kind = "nested" -> {<<name>>, <<name, "inner">>}
          [] OTHER -> {<<name>>}
      PkgFiles(name, kind) ==
        CASE kind = "none" -> {}
          [] kind = "direct" -> {<<name, "manifest.json">>, <<name, "data.bin">>}
          [] kind = "nested" -> {<<name, "inner", "manifest.json">>}
          [] OTHER -> {<<name, "data.bin">>}
      Prefixes(p) == {SubSeq(p, 1, k) : k \in 1..Len(p)}
      cd == PkgDirs("A", kindA) \cup PkgDirs("B", kindB)
            \cup (IF docs THEN {<<"docs">>} ELSE {})
      cf == PkgFiles("A", kindA) \cup PkgFiles("B", kindB)
            \cup (IF docs THEN {<<"docs", "readme.txt">>} ELSE {})
  IN [dirs |-> Prefixes(layout) \cup {layout \o p : p \in cd},
      files |-> {layout \o p : p \in cf} \cup (IF loose THEN {<<"readme.txt">>} ELSE {}),
      pkgVersion |-> ver,
      fsize |-> fsize]

EmptyTree == [dirs |-> {}, files |-> {}, pkgVersion |-> "2.0", fsize |-> 5]

\* What a copy of srcPath holds, as the reconciler can see it: the version of
\* the manifest.json at its root, or NoManifest.
NoManifest == "nomf"
unitContent(t, srcPath) ==
  IF isFile(t, Append(srcPath, "manifest.json")) THEN t.pkgVersion ELSE NoManifest


\* ------------------------------------------------------------------------
\* Catalog (RemoteManifest), persisted store (LocalState) and install folder
\* ------------------------------------------------------------------------
MkChannel(version, sha256, urlOk) ==
  [version |-> version, sha256 |-> sha256, urlOk |-> urlOk]

MkAddon(id, packageFolderNames, allowRawInstall, channels) ==
  [id |-> id, packageFolderNames |-> packageFolderNames,
   allowRawInstall |-> allowRawInstall, channels |-> channels]

NoAddon == MkAddon(Null, <<>>, FALSE, <<>>)
NoChannel == MkChannel(Null, Null, FALSE)
NoManifestLoaded == [loaded |-> FALSE, addons |-> <<>>]
MkManifest(addons) == [loaded |-> TRUE, addons |-> addons]

\* Hidden siblings used by atomicInstallFolders.
stageName(folderName) == "." \o folderName \o ".dsfc-stage"
backupName(folderName) == "." \o folderName \o ".dsfc-backup"

UnitNames == {"A", "B", "Community", "W", "docs", "inner", "A/inner"} \cup AddonIds
DiskPaths ==
  Bases \X (UnitNames \cup {stageName(n) : n \in UnitNames}
                      \cup {backupName(n) : n \in UnitNames})
Partial == "partial"

joinPath(base, name) == <<base, name>>
EmptyDisk == [p \in DiskPaths |-> Absent]
diskExists(d, p) == p \in DOMAIN d /\ d[p] # Absent

basePathOf(s) == IF s.installPath # Null THEN s.installPath ELSE s.communityPath

\* ------------------------------------------------------------------------
\* State
\* ------------------------------------------------------------------------
VARIABLES
  lastManifest,   \* ipc.ts: cached catalog
  settings,       \* store: settings.installPath / settings.communityPath
  installed,      \* store: addonId -> InstalledAddonRecord
  disk,           \* the install folders: path -> content or Absent
  ops,            \* in-flight ADDON_INSTALL / ADDON_UNINSTALL invocations
  recon,          \* the ADDON_RECONCILE invocation
  evq,            \* progress events sent to the renderer, not yet handled
  ui,             \* renderer: installProgress[addonId].phase
  now,            \* the clock read by `new Date()`
  xt,             \* the streaming extractor working on one archive
  sent,           \* per invocation, the progress events it has emitted so far
  boot            \* index.ts: the startup sequence, its timers and windows

vars == <<lastManifest, settings, installed, disk, ops, recon, evq, ui, now, xt, sent, boot>>

IdleOp ==
  [kind |-> "none", pc |-> "idle", addonId |-> Null, channelKey |-> Null,
   addon |-> NoAddon, channel |-> NoChannel, installPath |-> Null,
   actual |-> Null, tree |-> EmptyTree, packages |-> <<>>,
   idx |-> 0, sub |-> 0, movedToBackup |-> <<>>, installedPaths |-> <<>>,
   paths |-> <<>>, error |-> Null, ran |-> {}, free |-> 0, rbFault |-> FALSE,
   preDisk |-> EmptyDisk, scratch |-> "none"]

OpEnded(op) == op.pc \in {"idle", "done", "failed"}
OpInFlight(op) == ~OpEnded(op)
\* A new invocation takes the first slot whose invocation has returned.
FreeSlot(o) == OpEnded(ops[o]) /\ \A o2 \in OpIds : o2 < o => OpInFlight(ops[o2])

OpFail(op, err) == [op EXCEPT !.pc = "failed", !.error = err]

\* Outcomes of a file-system or network call that an action may draw from.
Reliable == {"ok"}
Faulty == {"ok", "fail"}

\* emitProgress -> sendProgress -> webContents.send: the renderer keeps only
\* the last phase per addon, so equal consecutive events are merged.
Emit(q, addonId, phases) ==
  LET Emit1(q1, phase) ==
        IF q1 # <<>> /\ Last(q1) = [addonId |-> addonId, phase |-> phase] THEN q1
        ELSE Append(q1, [addonId |-> addonId, phase |-> phase])
      e[i \in 0..Len(phases)] ==
        IF i = 0 THEN q ELSE Emit1(e[i - 1], phases[i])
  IN e[Len(phases)]

CanEmit == Len(evq) + 2 <= MaxQueue

\* installer.ts 24-28, over the integers.
clampPct(p) == IF p < 0 THEN 0 ELSE IF p > 100 THEN 100 ELSE p

\* installer.ts 31-46.  percent is {} (no percent) or {p}; the result is {}
\* (undefined) or {overall}.  The products are exact for the percents used.
mapOverall(phase, percent) ==
  IF percent = {}
  THEN (IF phase = "verifying" THEN {60} ELSE IF phase = "done" THEN {100} ELSE {})
  ELSE LET p == clampPct(CHOOSE x \in percent : TRUE)
       IN CASE phase = "downloading" -> {clampPct((p * 6) \div 10)}
            [] phase = "extracting" -> {clampPct(60 + (p * 25) \div 100)}
            [] phase = "installing" -> {clampPct(85 + (p * 15) \div 100)}
            [] phase = "verifying" -> {60}
            [] phase = "done" -> {100}
            [] OTHER -> {}

\* installer.ts 50-53: the event as the sink receives it.
emitProgress(phase, percent, overallPercent) ==
  [phase |-> phase,
   overallPercent |-> IF overallPercent # {} THEN overallPercent
                      ELSE mapOverall(phase, percent)]

Progress(phase, percent) == emitProgress(phase, percent, {})

\* installer.ts 1272-1277: the event of the catch block of installAddon.
TerminalEvent == emitProgress("done", {100}, {})

FailureEvent == emitProgress("installing", {}, {85})

phasesOf(events) == [i \in 1..Len(events) |-> events[i].phase]

\* The invocation in slot o emits events / emits its first events.
Send(o, addonId, events) ==
  /\ evq' = Emit(evq, addonId, phasesOf(events))
  /\ sent' = [sent EXCEPT ![o] = @ \o events]

SendFirst(o, addonId, events) ==
  /\ evq' = Emit(evq, addonId, phasesOf(events))
  /\ sent' = [sent EXCEPT ![o] = events]

\* store.ts
getState == [settings |-> settings, installed |-> installed]

setInstalled(inst, addonId, record) ==
  [a \in (DOMAIN inst) \cup {addonId} |-> IF a = addonId THEN record ELSE inst[a]]

deleteInstalled(inst, addonId) ==
  [a \in (DOMAIN inst) \ {addonId} |-> inst[a]]

\* ActionsPane.tsx
isBusy(phase) == phase # "none" /\ phase # "done"

\* ------------------------------------------------------------------------
\* ADDON_INSTALL handler and installAddon
\* ------------------------------------------------------------------------
\* ipc.ts 329-335
channelConflictNever(state, addonId, channelKey) == FALSE

channelConflict(state, addonId, channelKey) ==
  /\ addonId \in DOMAIN state.installed
  /\ state.installed[addonId].installed = TRUE
  /\ state.installed[addonId].installedChannel # Null
  /\ state.installed[addonId].installedChannel # Unknown
  /\ state.installed[addonId].installedChannel # channelKey

\* ipc.ts 340-347 and installer.ts 1120-1143: lookups, URL check, first event.
enterInstallAddon(op, manifest) ==
  LET hits == SelectSeq(manifest.addons, LAMBDA x : x.id = op.addonId)
  IN IF hits = <<>>
     THEN [op |-> OpFail(op, "AddonNotFound"), events |-> <<>>]
     ELSE IF op.channelKey \notin DOMAIN hits[1].channels
     THEN [op |-> OpFail(op, "ChannelNotAvailable"), events |-> <<>>]
     ELSE LET op1 == [op EXCEPT !.addon = hits[1],
                                !.channel = hits[1].channels[op.channelKey],
                                !.scratch = "present"]
          IN IF ~op1.channel.urlOk
             THEN [op |-> OpFail(op1, "InvalidUrl"), events |-> <<FailureEvent>>]
             ELSE [op |-> [op1 EXCEPT !.pc = "download"],
                   events |-> <<Progress("downloading", {0})>>]

IpcAddonInstall(o, addonId, channelKey) ==
  /\ FreeSlot(o)
  /\ ~isBusy(ui[addonId])
  /\ CanEmit
  /\ LET state == getState
         installPath == basePathOf(state.settings)
         op0 == [IdleOp EXCEPT !.kind = "install", !.addonId = addonId,
                               !.channelKey = channelKey,
                               !.installPath = installPath,
                               !.preDisk = disk]
         res == IF installPath = Null
                THEN [op |-> OpFail(op0, "InstallPathNotSet"), events |-> <<>>]
                ELSE IF channelConflict(state, addonId, channelKey)
                THEN [op |-> OpFail(op0, "ChannelConflict"), events |-> <<>>]
                ELSE IF ~lastManifest.loaded
                THEN [op |-> [op0 EXCEPT !.pc = "fetch"], events |-> <<>>]
                ELSE enterInstallAddon(op0, lastManifest)
     IN /\ ops' = [ops EXCEPT ![o] = res.op]
        /\ SendFirst(o, addonId, res.events)
  /\ UNCHANGED <<lastManifest, settings, installed, disk, recon, ui, now, xt, boot>>

\* ipc.ts 337-338: the handler's own fetch when no catalog is cached.
IpcInstallFetched(o, catalogs) ==
  /\ ops[o].pc = "fetch"
  /\ CanEmit
  /\ \E m \in catalogs :
       LET manifest == IF lastManifest.loaded THEN lastManifest ELSE m
           res == enterInstallAddon(ops[o], manifest)
       IN /\ lastManifest' = manifest
          /\ ops' = [ops EXCEPT ![o] = res.op]
          /\ Send(o, ops[o].addonId, res.events)
  /\ UNCHANGED <<settings, installed, disk, recon, ui, now, xt, boot>>

\* downloadToFile: the file that arrives has some digest and some content.
InstallDownload(o, digests, trees, io) ==
  /\ ops[o].pc = "download"
  /\ CanEmit
  /\ \/ /\ "fail" \in io
        /\ ops' = [ops EXCEPT ![o] = OpFail(@, "DownloadError")]
        /\ Send(o, ops[o].addonId, <<Progress("downloading", {40}), FailureEvent>>)
     \/ \E actual \in digests, t \in trees :
          /\ ops' = [ops EXCEPT ![o] = [@ EXCEPT !.pc = "verify",
                                                 !.actual = actual, !.tree = t]]
          /\ Send(o, ops[o].addonId, <<Progress("downloading", {100}),
                                        Progress("verifying", {})>>)
  /\ UNCHANGED <<lastManifest, settings, installed, disk, recon, ui, now, xt, boot>>

\* installer.ts 1159-1162
digestMatchesExact(actual, expected) == actual = expected

digestMatches(actual, expected) == toLowerCase(actual) = toLowerCase(expected)

InstallVerify(o) ==
  /\ ops[o].pc = "verify"
  /\ CanEmit
  /\ IF digestMatches(ops[o].actual, ops[o].channel.sha256)
     THEN /\ ops' = [ops EXCEPT ![o] = [@ EXCEPT !.pc = "extract"]]
          /\ UNCHANGED <<evq, sent>>
     ELSE /\ ops' = [ops EXCEPT ![o] = OpFail(@, "ChecksumMismatch")]
          /\ Send(o, ops[o].addonId, <<FailureEvent>>)
  /\ UNCHANGED <<lastManifest, settings, installed, disk, recon, ui, now, xt, boot>>

\* extractZipWithProgress as one step: the archive's tree, or a failure.
InstallExtract(o, io) ==
  /\ ops[o].pc = "extract"
  /\ CanEmit
  /\ \/ /\ "fail" \in io
        /\ ops' = [ops EXCEPT ![o] = [OpFail(@, "ExtractError") EXCEPT
                                        !.ran = @ \cup {"extract"}]]
        /\ Send(o, ops[o].addonId, <<Progress("extracting", {0}), FailureEvent>>)
     \/ /\ ops' = [ops EXCEPT ![o] = [@ EXCEPT !.pc = "resolve",
                                               !.ran = @ \cup {"extract"}]]
        /\ Send(o, ops[o].addonId, <<Progress("extracting", {0}),
                                      Progress("extracting", {100})>>)
  /\ UNCHANGED <<lastManifest, settings, installed, disk, recon, ui, now, xt, boot>>

\* installer.ts 1184-1240: mode selection and package resolution.
resolvePackagesWithFallback(op) ==
  LET strict == resolveStrict(op.tree, op.addon)
  IN IF op.addon.allowRawInstall = TRUE \/ ~strict.ok
     THEN resolveRawInstallSources(op.tree, op.addon.id, op.addon.packageFolderNames)
     ELSE [ok |-> TRUE, packages |-> strict.packages, tree |-> op.tree]

resolvePackages(op) ==
  IF op.addon.allowRawInstall = TRUE
  THEN resolveRawInstallSources(op.tree, op.addon.id, op.addon.packageFolderNames)
  ELSE [ok |-> resolveStrict(op.tree, op.addon).ok,
        packages |-> resolveStrict(op.tree, op.addon).packages,
        tree |-> op.tree]

InstallResolve(o) ==
  /\ ops[o].pc = "resolve"
  /\ CanEmit
  /\ LET res == resolvePackages(ops[o])
     IN IF res.ok
        THEN /\ ops' = [ops EXCEPT ![o] = [@ EXCEPT !.pc = "guard",
                                                    !.packages = res.packages,
                                                    !.tree = res.tree,
                                                    !.ran = @ \cup {"resolve"}]]
             /\ UNCHANGED <<evq, sent>>
        ELSE /\ ops' = [ops EXCEPT ![o] = [OpFail(@, "PackageNotFound") EXCEPT
                                             !.ran = @ \cup {"resolve"}]]
             /\ Send(o, ops[o].addonId, <<FailureEvent>>)
  /\ UNCHANGED <<lastManifest, settings, installed, disk, recon, ui, now, xt, boot>>

\* installer.ts 1202 and 1249
diskGuardNever(freeBytes, required) == FALSE

diskGuardFails(freeBytes, required) == freeBytes < required

extractedBytesOf(op) ==
  SumSeq([i \in 1..Len(op.packages) |-> sumDirBytes(op.tree, op.packages[i].srcPath)])

\* installer.ts 1198-1209 and 1245-1256: the disk space collaborator reports
\* some number of free bytes.
InstallDiskGuard(o, frees) ==
  /\ ops[o].pc = "guard"
  /\ CanEmit
  /\ \E freeBytes \in frees :
       LET required == requiredBytesFromInstalledSize(extractedBytesOf(ops[o]))
       IN IF diskGuardFails(freeBytes, required)
          THEN /\ ops' = [ops EXCEPT ![o] = [OpFail(@, "InsufficientSpace") EXCEPT
                                               !.free = freeBytes,
                                               !.ran = @ \cup {"guard"}]]
               /\ Send(o, ops[o].addonId, <<FailureEvent>>)
          ELSE /\ ops' = [ops EXCEPT ![o] = [@ EXCEPT !.pc = "aClean",
                                                      !.free = freeBytes,
                                                      !.ran = @ \cup {"guard"}]]
               /\ Send(o, ops[o].addonId, <<Progress("installing", {})>>)
  /\ UNCHANGED <<lastManifest, settings, installed, disk, recon, ui, now, xt, boot>>


\* ------------------------------------------------------------------------
\* atomicInstallFolders
\* ------------------------------------------------------------------------
stagesOf(op) ==
  [i \in 1..Len(op.packages) |->
     [folderName |-> op.packages[i].folderName,
      src |-> op.packages[i].srcPath,
      dst |-> joinPath(op.installPath, op.packages[i].folderName),
      stage |-> joinPath(op.installPath, stageName(op.packages[i].folderName)),
      backup |-> joinPath(op.installPath, backupName(op.packages[i].folderName))]]

fseRemoveNothing(d, p) == d

fseRemove(d, p) == [d EXCEPT ![p] = Absent]
fseMove(d, from, to) == [d EXCEPT ![to] = d[from], ![from] = Absent]

removeRemnantsAndTargets(d, stages) ==
  [p \in DOMAIN d |->
     IF \E i \in 1..Len(stages) :
          p = stages[i].stage \/ p = stages[i].backup \/ p = stages[i].dst
     THEN Absent ELSE d[p]]

removeRemnants(d, stages) ==
  [p \in DOMAIN d |->
     IF \E i \in 1..Len(stages) : p = stages[i].stage \/ p = stages[i].backup
     THEN Absent ELSE d[p]]

\* installer.ts 989-1039: writability probe, removal of earlier remnants,
\* pre-scan of the sources.
AtomicBegin(o, io) ==
  /\ ops[o].pc = "aClean"
  /\ CanEmit
  /\ LET stages == stagesOf(ops[o])
     IN \/ /\ "fail" \in io
           /\ ops' = [ops EXCEPT ![o] = [OpFail(@, "NotWritable") EXCEPT
                                          !.ran = @ \cup {"atomic"}]]
           /\ disk' = disk
           /\ Send(o, ops[o].addonId, <<FailureEvent>>)
        \/ /\ \A i \in 1..Len(stages) : isDirectory(ops[o].tree, stages[i].src)
           /\ ops' = [ops EXCEPT ![o] = [@ EXCEPT !.pc = "aStage", !.idx = 1,
                                                  !.ran = @ \cup {"atomic"}]]
           /\ disk' = removeRemnants(disk, stages)
           /\ Send(o, ops[o].addonId, <<Progress("installing", {0})>>)
        \/ /\ \E i \in 1..Len(stages) : ~isDirectory(ops[o].tree, stages[i].src)
           /\ ops' = [ops EXCEPT ![o] = [@ EXCEPT !.pc = "aRollback",
                                                  !.error = "PackageFolderMissing",
                                                  !.ran = @ \cup {"atomic"}]]
           /\ disk' = removeRemnants(disk, stages)
           /\ Send(o, ops[o].addonId, <<Progress("installing", {0})>>)
  /\ UNCHANGED <<lastManifest, settings, installed, recon, ui, now, xt, boot>>

\* installer.ts 1041-1059: copy one source folder to its staging sibling.
AtomicStage(o, io) ==
  /\ ops[o].pc = "aStage"
  /\ CanEmit
  /\ LET stages == stagesOf(ops[o])
         s == stages[ops[o].idx]
     IN \/ /\ disk' = [disk EXCEPT ![s.stage] = unitContent(ops[o].tree, s.src)]
           /\ ops' = [ops EXCEPT ![o] =
                        IF ops[o].idx = Len(stages)
                        THEN [@ EXCEPT !.pc = "aSwap", !.idx = 1, !.sub = 0]
                        ELSE [@ EXCEPT !.idx = @ + 1]]
           /\ Send(o, ops[o].addonId,
                   <<Progress("installing", IF ops[o].idx = Len(stages) THEN {100} ELSE {40})>>)
        \/ /\ "fail" \in io
           /\ \E c \in {disk[s.stage], Partial} :
                disk' = [disk EXCEPT ![s.stage] = c]
           /\ ops' = [ops EXCEPT ![o] = [@ EXCEPT !.pc = "aRollback",
                                                  !.error = "StageError"]]
           /\ Send(o, ops[o].addonId, <<Progress("installing", {40})>>)
  /\ UNCHANGED <<lastManifest, settings, installed, recon, ui, now, xt, boot>>

\* installer.ts 1063-1066: move an existing target aside.
AtomicSwapBackup(o, io) ==
  /\ ops[o].pc = "aSwap" /\ ops[o].sub = 0
  /\ LET s == stagesOf(ops[o])[ops[o].idx]
         m == [dst |-> s.dst, backup |-> s.backup, stage |-> s.stage]
     IN \/ /\ disk' = IF diskExists(disk, s.dst)
                      THEN fseMove(disk, s.dst, s.backup) ELSE disk
           /\ ops' = [ops EXCEPT ![o] = [@ EXCEPT !.sub = 1,
                                  !.movedToBackup = Append(@, m)]]
        \/ /\ "fail" \in io
           /\ diskExists(disk, s.dst)
           /\ disk' = disk
           /\ ops' = [ops EXCEPT ![o] = [@ EXCEPT !.pc = "aRollback",
                                                  !.error = "SwapError"]]
  /\ UNCHANGED <<lastManifest, settings, installed, recon, evq, ui, now, xt, sent, boot>>

\* installer.ts 1067-1068: move the staged folder into place.
AtomicSwapMove(o, io) ==
  /\ ops[o].pc = "aSwap" /\ ops[o].sub = 1
  /\ LET stages == stagesOf(ops[o])
         s == stages[ops[o].idx]
     IN \/ /\ diskExists(disk, s.stage)
           /\ disk' = fseMove(disk, s.stage, s.dst)
           /\ ops' = [ops EXCEPT ![o] =
                        IF ops[o].idx = Len(stages)
                        THEN [@ EXCEPT !.pc = "aBackups", !.idx = 1, !.sub = 0,
                                       !.installedPaths = Append(@, s.dst)]
                        ELSE [@ EXCEPT !.idx = @ + 1, !.sub = 0,
                                       !.installedPaths = Append(@, s.dst)]]
        \/ /\ "fail" \in io \/ ~diskExists(disk, s.stage)
           /\ disk' = disk
           /\ ops' = [ops EXCEPT ![o] = [@ EXCEPT !.pc = "aRollback",
                                                  !.error = "SwapError"]]
  /\ UNCHANGED <<lastManifest, settings, installed, recon, evq, ui, now, xt, sent, boot>>

\* installer.ts 1072-1076: remove the backups once every unit is in place.
AtomicCleanupBackup(o, io) ==
  /\ ops[o].pc = "aBackups"
  /\ LET stages == stagesOf(ops[o])
         s == stages[ops[o].idx]
     IN \/ /\ disk' = fseRemove(disk, s.backup)
           /\ ops' = [ops EXCEPT ![o] =
                        IF ops[o].idx = Len(stages)
                        THEN [@ EXCEPT !.pc = "aDone"]
                        ELSE [@ EXCEPT !.idx = @ + 1]]
        \/ /\ "fail" \in io
           /\ diskExists(disk, s.backup)
           /\ disk' = disk
           /\ ops' = [ops EXCEPT ![o] = [@ EXCEPT !.pc = "aRollback",
                                                  !.error = "BackupCleanupError"]]
  /\ UNCHANGED <<lastManifest, settings, installed, recon, evq, ui, now, xt, sent, boot>>

\* installer.ts 1079-1097: undo one swapped unit. Each of the three file
\* operations swallows its own error; f names the one that fails, if any.

rollbackOneNoRestore(d, m, f) ==
  fseRemove(fseRemove(d, m.dst), m.stage)

rollbackOne(d, m, f) ==
  LET d1 == IF f = "removeDst" THEN d ELSE fseRemove(d, m.dst)
      d2 == IF f # "restore" /\ diskExists(d1, m.backup)
            THEN fseMove(d1, m.backup, m.dst) ELSE d1
  IN IF f = "removeStage" THEN d2 ELSE fseRemove(d2, m.stage)

rollbackAllUntilFault(d, moved, k, f) ==
  LET r[i \in 0..Len(moved)] ==
        IF i = 0 THEN d
        ELSE IF k # 0 /\ i > k THEN r[i - 1]
        ELSE rollbackOne(r[i - 1], Reverse(moved)[i], IF i = k THEN f ELSE "none")
  IN r[Len(moved)]

rollbackAll(d, moved, k, f) ==
  LET r[i \in 0..Len(moved)] ==
        IF i = 0 THEN d
        ELSE rollbackOne(r[i - 1], Reverse(moved)[i], IF i = k THEN f ELSE "none")
  IN r[Len(moved)]

\* installer.ts 1077-1106 and 1269-1279: rollback, then the error travels up.
AtomicRollback(o, io) ==
  /\ ops[o].pc = "aRollback"
  /\ CanEmit
  /\ \E k \in 0..Len(ops[o].movedToBackup), f \in {"removeDst", "restore", "removeStage", "none"} :
       /\ (k = 0) = (f = "none")
       /\ k # 0 => "fail" \in io
       /\ disk' = removeRemnants(rollbackAll(disk, ops[o].movedToBackup, k, f),
                                 stagesOf(ops[o]))
       /\ ops' = [ops EXCEPT ![o] = [@ EXCEPT !.pc = "failed", !.rbFault = (k # 0)]]
  /\ Send(o, ops[o].addonId, <<FailureEvent>>)
  /\ UNCHANGED <<lastManifest, settings, installed, recon, ui, now, xt, boot>>

\* installer.ts 1258-1266: the terminal event, then scratch removal.
InstallEmitDone(o) ==
  /\ ops[o].pc = "aDone"
  /\ CanEmit
  /\ ops' = [ops EXCEPT ![o] = [@ EXCEPT !.pc = "cleanup"]]
  /\ Send(o, ops[o].addonId, <<Progress("done", {100})>>)
  /\ UNCHANGED <<lastManifest, settings, installed, disk, recon, ui, now, xt, boot>>

\* ipc.ts 348-363: the record is written when installAddon has returned.
installedRecordNoChannel(op, at) ==
  [addonId |-> op.addonId, installed |-> TRUE,
   installedChannel |-> Unknown,
   installedVersion |-> op.channel.version,
   installPath |-> op.installPath,
   installedAt |-> at,
   installedPaths |-> op.installedPaths]

installedRecord(op, at) ==
  [addonId |-> op.addonId, installed |-> TRUE,
   installedChannel |-> op.channelKey,
   installedVersion |-> op.channel.version,
   installPath |-> op.installPath,
   installedAt |-> at,
   installedPaths |-> op.installedPaths]

IpcInstallCommit(o) ==
  /\ ops[o].pc = "cleanup"
  /\ installed' = setInstalled(installed, ops[o].addonId, installedRecord(ops[o], now))
  /\ ops' = [ops EXCEPT ![o] = [@ EXCEPT !.pc = "done", !.scratch = "removed"]]
  /\ UNCHANGED <<lastManifest, settings, disk, recon, evq, ui, now, xt, sent, boot>>

\* ------------------------------------------------------------------------
\* ADDON_UNINSTALL handler and uninstallAddon
\* ------------------------------------------------------------------------
IpcAddonUninstall(o, addonId) ==
  /\ FreeSlot(o)
  /\ ~isBusy(ui[addonId])
  /\ CanEmit
  /\ LET state == getState
         op0 == [IdleOp EXCEPT !.kind = "uninstall", !.addonId = addonId,
                               !.preDisk = disk]
     IN IF addonId \notin DOMAIN state.installed
        THEN /\ ops' = [ops EXCEPT ![o] = [op0 EXCEPT !.pc = "done"]]
             /\ SendFirst(o, addonId, <<>>)
        ELSE /\ ops' = [ops EXCEPT ![o] =
                          [op0 EXCEPT !.pc = "uRemove", !.idx = 1,
                                      !.paths = state.installed[addonId].installedPaths]]
             /\ SendFirst(o, addonId, <<Progress("uninstalling", {})>>)
  /\ UNCHANGED <<lastManifest, settings, installed, disk, recon, ui, now, xt, boot>>

\* installer.ts 1287-1289
UninstallRemove(o, io) ==
  /\ ops[o].pc = "uRemove"
  /\ ops[o].idx <= Len(ops[o].paths)
  /\ \/ /\ disk' = fseRemove(disk, ops[o].paths[ops[o].idx])
        /\ ops' = [ops EXCEPT ![o] = [@ EXCEPT !.idx = @ + 1]]
     \/ /\ "fail" \in io
        /\ diskExists(disk, ops[o].paths[ops[o].idx])
        /\ disk' = disk
        /\ ops' = [ops EXCEPT ![o] = OpFail(@, "RemoveError")]
  /\ UNCHANGED <<lastManifest, settings, installed, recon, evq, ui, now, xt, sent, boot>>

\* installer.ts 1291 and ipc.ts 373-378
IpcUninstallCommit(o) ==
  /\ ops[o].pc = "uRemove"
  /\ ops[o].idx > Len(ops[o].paths)
  /\ CanEmit
  /\ Send(o, ops[o].addonId, <<Progress("done", {100})>>)
  /\ installed' = deleteInstalled(installed, ops[o].addonId)
  /\ ops' = [ops EXCEPT ![o] = [@ EXCEPT !.pc = "done"]]
  /\ UNCHANGED <<lastManifest, settings, disk, recon, ui, now, xt, boot>>

\* App.tsx onInstallProgress: the renderer handles the oldest pending event.
UiDeliver ==
  /\ evq # <<>>
  /\ ui' = [ui EXCEPT ![Head(evq).addonId] = Head(evq).phase]
  /\ evq' = Tail(evq)
  /\ UNCHANGED <<lastManifest, settings, installed, disk, ops, recon, now, xt, sent, boot>>

\* new Date(): time passes.
Tick ==
  /\ now < MaxClock
  /\ now' = now + 1
  /\ UNCHANGED <<lastManifest, settings, installed, disk, ops, recon, evq, ui, xt, sent, boot>>


\* ------------------------------------------------------------------------
\* ADDON_RECONCILE handler
\* ------------------------------------------------------------------------
IdleRecon ==
  [pc |-> "idle", installed |-> <<>>, basePath |-> Null, addons |-> <<>>,
   communityDirs |-> <<>>, folderMeta |-> <<>>,
   fault |-> FALSE,        \* this run met a read failure
   overlap |-> FALSE,      \* this run shared the install path with an operation
   disturbed |-> FALSE,    \* folder or catalog changed while this run was going
   havePrev |-> FALSE,     \* an undisturbed run has returned, nothing changed since
   prevOut |-> <<>>,       \* records left by the previous run
   pairOk |-> FALSE,       \* two undisturbed runs in a row, nothing changed since
   pairFirst |-> <<>>]     \* records left by the first run of that pair

inferInstalledChannel(addon, installedVersion) ==
  IF installedVersion = "" \/ installedVersion = Unknown THEN Null
  ELSE LET hits == SelectSeq(ChannelKeys, LAMBDA k :
                     /\ k \in DOMAIN addon.channels
                     /\ addon.channels[k].version = installedVersion)
       IN IF hits # <<>> THEN hits[1] ELSE Unknown

\* readdir of the install folder, directories only.
readCommunityDirs(d, basePath) ==
  LET DirOrder ==
        ConcatMap(NameOrder, LAMBDA n : <<backupName(n), stageName(n)>>) \o NameOrder
  IN SelectSeq(DirOrder, LAMBDA n : diskExists(d, joinPath(basePath, n)))

\* ipc.ts 184-201: version read from <dir>/manifest.json, keyed by lower-cased name.
readFolderMeta(d, basePath, communityDirs) ==
  LET withVersion == {n \in Range(communityDirs) : d[joinPath(basePath, n)] \in Versions}
  IN [k \in {toLowerCase(n) : n \in withVersion} |->
        d[joinPath(basePath, CHOOSE n \in withVersion : toLowerCase(n) = k)]]

\* ipc.ts 205-227: folder name -> addon id; names claimed twice are dropped.
mapPut(m, k, v) == [x \in (DOMAIN m) \cup {k} |-> IF x = k THEN v ELSE m[x]]

claimFolders(acc, addon) ==
  LET folders == addon.packageFolderNames
      c[i \in 0..Len(folders)] ==
        IF i = 0 THEN acc
        ELSE LET key == toLowerCase(folders[i])
             IN IF key \in DOMAIN c[i - 1].map /\ c[i - 1].map[key] # addon.id
                THEN [c[i - 1] EXCEPT !.conflicts = @ \cup {key}]
                ELSE [c[i - 1] EXCEPT !.map = mapPut(@, key, addon.id)]
      claimed == c[Len(folders)]
  IN IF Len(folders) = 0 /\ toLowerCase(addon.id) \notin DOMAIN claimed.map
     THEN [claimed EXCEPT !.map = mapPut(@, toLowerCase(addon.id), addon.id)]
     ELSE claimed

\* ipc.ts 227: for (const c of conflicts) folderToAddon.delete(c)
keepConflicts(all) == all.map

dropConflicts(all) == [k \in (DOMAIN all.map) \ all.conflicts |-> all.map[k]]

folderToAddon(addons) ==
  LET f[i \in 0..Len(addons)] ==
        IF i = 0 THEN [map |-> <<>>, conflicts |-> {}]
        ELSE claimFolders(f[i - 1], addons[i])
  IN dropConflicts(f[Len(addons)])

\* ipc.ts 230-237
foundByAddon(communityDirs, f2a) ==
  LET owner(dir) == IF toLowerCase(dir) \in DOMAIN f2a THEN f2a[toLowerCase(dir)] ELSE Null
  IN [a \in {owner(dir) : dir \in Range(communityDirs)} \ {Null} |->
        SelectSeq(communityDirs, LAMBDA dir : owner(dir) = a)]

inferredVersion(folders, meta) ==
  LET hits == SelectSeq(folders, LAMBDA f : toLowerCase(f) \in DOMAIN meta)
  IN IF hits = <<>> THEN Null ELSE meta[toLowerCase(hits[1])]

\* Order of Object.entries / Map iteration over addon ids.
AddonOrder == <<"a1", "a2">>

\* ipc.ts 241-281: one existing record.
\* `...rec` at ipc.ts 273 carries installedAt over.
freshInstalledAt(rec, at) == at

keptInstalledAt(rec, at) == rec.installedAt

\* ipc.ts 246-247: does any recorded path still exist?
everyStillExists(rec, d) ==
  \A i \in 1..Len(rec.installedPaths) : diskExists(d, rec.installedPaths[i])

anyStillExists(rec, d) ==
  \E i \in 1..Len(rec.installedPaths) : diskExists(d, rec.installedPaths[i])

reconcileRecord(inst, addonId, rec, r, d, at) ==
  LET found == foundByAddon(r.communityDirs, folderToAddon(r.addons))
      observedFolders == IF addonId \in DOMAIN found THEN found[addonId] ELSE <<>>
      observedPaths == [i \in 1..Len(observedFolders) |->
                          joinPath(r.basePath, observedFolders[i])]
      validObservedPaths == SelectSeq(observedPaths, LAMBDA p : diskExists(d, p))
      inferred == inferredVersion(observedFolders, r.folderMeta)
      addonHits == SelectSeq(r.addons, LAMBDA a : a.id = addonId)
      installedVersion == IF rec.installedVersion = Unknown /\ inferred # Null
                          THEN inferred ELSE rec.installedVersion
  IN IF observedFolders = <<>>
     THEN IF anyStillExists(rec, d)
          THEN inst
          ELSE deleteInstalled(inst, addonId)
     ELSE IF validObservedPaths = <<>> THEN inst
     ELSE setInstalled(inst, addonId,
            [rec EXCEPT !.installed = TRUE,
                        !.installedPaths = validObservedPaths,
                        !.installedVersion = installedVersion,
                        !.installPath = IF @ # Null THEN @ ELSE r.basePath,
                        !.installedAt = keptInstalledAt(rec, at),
                        !.installedChannel =
                           IF addonHits # <<>>
                           THEN inferInstalledChannel(addonHits[1], installedVersion)
                           ELSE IF @ # Null THEN @ ELSE Unknown])

reconcileExisting(inst, r, d, at) ==
  LET ids == SelectSeq(AddonOrder, LAMBDA a : a \in DOMAIN r.installed)
      e[i \in 0..Len(ids)] ==
        IF i = 0 THEN inst
        ELSE reconcileRecord(e[i - 1], ids[i], r.installed[ids[i]], r, d, at)
  IN e[Len(ids)]

\* ipc.ts 284-314: one folder set without a record.
newRecord(addonId, folders, r, d, at) ==
  LET installedPaths == [i \in 1..Len(folders) |-> joinPath(r.basePath, folders[i])]
      valid == SelectSeq(installedPaths, LAMBDA p : diskExists(d, p))
      inferred == inferredVersion(folders, r.folderMeta)
      addonHits == SelectSeq(r.addons, LAMBDA a : a.id = addonId)
      installedVersion == IF inferred # Null THEN inferred ELSE Unknown
  IN [addonId |-> addonId, installed |-> TRUE,
      installedChannel |-> IF addonHits # <<>>
                           THEN inferInstalledChannel(addonHits[1], installedVersion)
                           ELSE Unknown,
      installedVersion |-> installedVersion,
      installPath |-> r.basePath,
      installedAt |-> at,
      installedPaths |-> valid]

reconcileNew(inst, r, d, at) ==
  LET found == foundByAddon(r.communityDirs, folderToAddon(r.addons))
      ids == SelectSeq(AddonOrder, LAMBDA a : a \in DOMAIN found /\ a \notin DOMAIN inst)
      n[i \in 0..Len(ids)] ==
        IF i = 0 THEN inst
        ELSE LET rec == newRecord(ids[i], found[ids[i]], r, d, at)
             IN IF rec.installedPaths = <<>> THEN n[i - 1]
                ELSE setInstalled(n[i - 1], ids[i], rec)
  IN n[Len(ids)]

\* ipc.ts 153-161: no base path, prune records with a missing path.
pruneMissing(inst, d) ==
  [a \in {x \in DOMAIN inst :
            \A i \in 1..Len(inst[x].installedPaths) : diskExists(d, inst[x].installedPaths[i])}
     |-> inst[a]]

AnyOpInFlight == \E o \in OpIds : OpInFlight(ops[o])

\* Bookkeeping when a run returns: remember what it left behind.
reconReturn(r, out) ==
  LET calm == ~r.fault /\ ~r.overlap /\ ~r.disturbed /\ ~AnyOpInFlight
  IN [IdleRecon EXCEPT !.havePrev = calm,
                       !.prevOut = IF calm THEN out ELSE <<>>,
                       !.pairOk = r.havePrev /\ calm,
                       !.pairFirst = IF r.havePrev /\ calm THEN r.prevOut ELSE <<>>]

ReconStart ==
  /\ recon.pc = "idle"
  /\ LET state == getState
         basePath == basePathOf(state.settings)
         r0 == [recon EXCEPT !.installed = state.installed, !.basePath = basePath,
                             !.fault = FALSE, !.disturbed = FALSE,
                             !.overlap = AnyOpInFlight,
                             !.addons = lastManifest.addons]
     IN IF basePath = Null
        THEN /\ installed' = pruneMissing(installed, disk)
             /\ recon' = reconReturn(r0, pruneMissing(installed, disk))
        ELSE /\ installed' = installed
             /\ recon' = IF ~lastManifest.loaded THEN [r0 EXCEPT !.pc = "fetch"]
                         ELSE IF lastManifest.addons = <<>> THEN reconReturn(r0, installed)
                         ELSE [r0 EXCEPT !.pc = "scan"]
  /\ UNCHANGED <<lastManifest, settings, disk, ops, evq, ui, now, xt, sent, boot>>

\* ipc.ts 164-171
ReconFetchedGoesOn(catalogs) ==
  /\ recon.pc = "fetch"
  /\ \E m \in catalogs :
       LET manifest == IF lastManifest.loaded THEN lastManifest ELSE m
       IN /\ lastManifest' = manifest
          /\ recon' = [recon EXCEPT !.addons = manifest.addons, !.pc = "scan",
                                    !.overlap = @ \/ AnyOpInFlight]
  /\ UNCHANGED <<settings, installed, disk, ops, evq, ui, now, xt, sent, boot>>

ReconFetched(catalogs) ==
  /\ recon.pc = "fetch"
  /\ \E m \in catalogs :
       LET manifest == IF lastManifest.loaded THEN lastManifest ELSE m
           r1 == [recon EXCEPT !.addons = manifest.addons,
                               !.overlap = @ \/ AnyOpInFlight]
       IN /\ lastManifest' = manifest
          /\ recon' = IF manifest.addons = <<>> THEN reconReturn(r1, installed)
                      ELSE [r1 EXCEPT !.pc = "scan"]
  /\ UNCHANGED <<settings, installed, disk, ops, evq, ui, now, xt, sent, boot>>

\* ipc.ts 174-181
ReconScan(io) ==
  /\ recon.pc = "scan"
  /\ \/ recon' = [recon EXCEPT !.pc = "meta",
                               !.communityDirs = readCommunityDirs(disk, recon.basePath),
                               !.overlap = @ \/ AnyOpInFlight]
     \/ /\ "fail" \in io
        /\ recon' = reconReturn([recon EXCEPT !.fault = TRUE], installed)
  /\ UNCHANGED <<lastManifest, settings, installed, disk, ops, evq, ui, now, xt, sent, boot>>

\* ipc.ts 184-201
ReconMeta ==
  /\ recon.pc = "meta"
  /\ recon' = [recon EXCEPT !.pc = "existing",
                 !.folderMeta = readFolderMeta(disk, recon.basePath, recon.communityDirs),
                 !.overlap = @ \/ AnyOpInFlight]
  /\ UNCHANGED <<lastManifest, settings, installed, disk, ops, evq, ui, now, xt, sent, boot>>

\* ipc.ts 241-281
ReconExisting ==
  /\ recon.pc = "existing"
  /\ installed' = reconcileExisting(installed, recon, disk, now)
  /\ recon' = [recon EXCEPT !.pc = "new", !.overlap = @ \/ AnyOpInFlight]
  /\ UNCHANGED <<lastManifest, settings, disk, ops, evq, ui, now, xt, sent, boot>>

\* ipc.ts 284-320
ReconNew ==
  /\ recon.pc = "new"
  /\ installed' = reconcileNew(installed, recon, disk, now)
  /\ recon' = reconReturn(recon, reconcileNew(installed, recon, disk, now))
  /\ UNCHANGED <<lastManifest, settings, disk, ops, evq, ui, now, xt, sent, boot>>

\* MANIFEST_FETCH: the renderer loads (or reloads) the catalog.
ManifestFetch(catalogs) ==
  /\ \E c \in catalogs :
       /\ lastManifest' = MkManifest(c)
       /\ lastManifest' # lastManifest
  /\ recon' = [recon EXCEPT !.havePrev = FALSE, !.pairOk = FALSE,
                             !.prevOut = <<>>, !.pairFirst = <<>>,
                             !.disturbed = (recon.pc # "idle")]
  /\ UNCHANGED <<settings, installed, disk, ops, evq, ui, now, xt, sent, boot>>

\* SETTINGS_SET with a patch of installPath (ipc.ts 60-63, setSettings).
SettingsSet(paths) ==
  /\ \E ip \in paths :
       /\ settings.installPath # ip
       /\ settings' = [settings EXCEPT !.installPath = ip]
  /\ recon' = [recon EXCEPT !.havePrev = FALSE, !.pairOk = FALSE,
                             !.prevOut = <<>>, !.pairFirst = <<>>,
                             !.disturbed = (recon.pc # "idle")]
  /\ UNCHANGED <<lastManifest, installed, disk, ops, evq, ui, now, xt, sent, boot>>

\* The user edits the install folder by hand.
UserEditsFolder(names, contents) ==
  /\ \E b \in Bases, n \in names, c \in contents \cup {Absent} :
       /\ disk[joinPath(b, n)] # c
       /\ disk' = [disk EXCEPT ![joinPath(b, n)] = c]
  /\ recon' = [recon EXCEPT !.havePrev = FALSE, !.pairOk = FALSE,
                             !.prevOut = <<>>, !.pairFirst = <<>>,
                             !.disturbed = (recon.pc # "idle")]
  /\ UNCHANGED <<lastManifest, settings, installed, ops, evq, ui, now, xt, sent, boot>>

\* ------------------------------------------------------------------------
\* extractZipWithProgress, entry by entry.  Here a path is a sequence of
\* segments and a segment a sequence of characters, so that the string
\* operations of assertUnderDir act on the characters of the resolved paths.
\* ------------------------------------------------------------------------
DotDot == <<".", ".">>
SegWork == <<"w">>
SegExtracted == <<"e", "x", "t", "r", "a", "c", "t", "e", "d">>

\* join(workDir, 'extracted')
ExtractDir == <<SegWork, SegExtracted>>

\* Entry names of the archives fed to the extractor: fileName without its
\* leading and trailing slashes, split at '/'.
MkEntry(absolute, segs, isDir) == [absolute |-> absolute, segs |-> segs, isDir |-> isDir]

XtEntryNames ==
  LET SegSibling == SegExtracted \o <<"-", "e", "v", "i", "l">>
      SegA == <<"a">>
      SegD == <<"D">>
      SegEvil == <<"e", "v", "i", "l">>
  IN
  {MkEntry(FALSE, <<>>, FALSE),                        \* ''
   MkEntry(FALSE, <<SegA>>, FALSE),                    \* 'a'
   MkEntry(FALSE, <<SegD>>, TRUE),                     \* 'D/'
   MkEntry(FALSE, <<SegD, SegA>>, FALSE),              \* 'D/a'
   MkEntry(FALSE, <<SegD, DotDot, SegA>>, FALSE),      \* 'D/../a'
   MkEntry(TRUE, <<SegEvil>>, FALSE),                  \* '/evil'
   MkEntry(FALSE, <<DotDot, DotDot, SegEvil>>, FALSE), \* '../../evil'
   MkEntry(FALSE, <<DotDot, SegSibling, SegA>>, FALSE)} \* '../extracted-evil/a'

XtArchives == UNION {[1..n -> XtEntryNames] : n \in 1..MaxEntries}

\* path.normalize over segments: '..' steps out of the last segment kept.
normalizeSegs(segs) ==
  LET n[i \in 0..Len(segs)] ==
        IF i = 0 THEN <<>>
        ELSE IF segs[i] = DotDot
             THEN (IF n[i - 1] = <<>> THEN <<>> ELSE Front(n[i - 1]))
             ELSE Append(n[i - 1], segs[i])
  IN n[Len(segs)]

\* path.join(extractDir, rel): concatenation, then normalization; a leading
\* slash of rel does not restart the path.
pathJoin(dir, entry) == normalizeSegs(dir \o entry.segs)

\* path.resolve of an absolute path, as a string of characters.
resolveString(path) ==
  LET r[i \in 0..Len(path)] ==
        IF i = 0 THEN <<>> ELSE r[i - 1] \o <<"/">> \o path[i]
  IN IF path = <<>> THEN <<"/">> ELSE r[Len(path)]

lowerString(str) == [i \in 1..Len(str) |-> IF str[i] = "D" THEN "d" ELSE str[i]]
startsWith(str, prefix) ==
  Len(prefix) <= Len(str) /\ SubSeq(str, 1, Len(prefix)) = prefix

\* installer.ts 146-152: TRUE when the guard lets the candidate through.
assertUnderDir(baseDir, candidate) ==
  startsWith(lowerString(resolveString(candidate)), lowerString(resolveString(baseDir)))

\* Real containment: equal to the directory or below it.
isInside(dir, path) == IsPrefixPath(dir, path)

\* fse.ensureDir(dir): the directory and its missing ancestors.
ensureDir(created, path) ==
  created \cup ({SubSeq(path, 1, k) : k \in 1..Len(path)} \ {<<SegWork>>, ExtractDir})

IdleXt == [pc |-> "idle", entries |-> <<>>, idx |-> 0, created |-> {}, totalFiles |-> 0]

XtOpen(archives) ==
  /\ xt.pc \in {"idle", "done", "failed"}
  /\ \E a \in archives : xt' = [IdleXt EXCEPT !.pc = "totals", !.entries = a]
  /\ UNCHANGED <<lastManifest, settings, installed, disk, ops, recon, evq, ui, now, sent, boot>>

\* installer.ts 154-189 and 201-216
XtTotals ==
  /\ xt.pc = "totals"
  /\ xt' = [xt EXCEPT !.pc = "entry", !.idx = 1,
              !.totalFiles = Cardinality({i \in 1..Len(xt.entries) : ~xt.entries[i].isDir})]
  /\ UNCHANGED <<lastManifest, settings, installed, disk, ops, recon, evq, ui, now, sent, boot>>

\* installer.ts 248-295: the 'entry' listener.  An exception thrown by the
\* listener surfaces wherever the zip reader dispatched the event: it either
\* reaches the promise executor (rejection) or nobody (the promise stays
\* pending).
XtOnEntry(io) ==
  /\ xt.pc = "entry"
  /\ xt.idx <= Len(xt.entries)
  /\ LET entry == xt.entries[xt.idx]
         destPath == pathJoin(ExtractDir, entry)
     IN IF entry.segs = <<>>
        THEN xt' = [xt EXCEPT !.idx = @ + 1]
        ELSE IF ~assertUnderDir(ExtractDir, destPath)
        THEN \E outcome \in {"failed", "hung"} : xt' = [xt EXCEPT !.pc = outcome]
        ELSE \/ xt' = [xt EXCEPT !.idx = @ + 1,
                                 !.created = ensureDir(@, destPath)]
             \/ /\ "fail" \in io
                /\ xt' = [xt EXCEPT !.pc = "failed"]
  /\ UNCHANGED <<lastManifest, settings, installed, disk, ops, recon, evq, ui, now, sent, boot>>

\* installer.ts 298
XtEnd ==
  /\ xt.pc = "entry"
  /\ xt.idx > Len(xt.entries)
  /\ xt' = [xt EXCEPT !.pc = "done"]
  /\ UNCHANGED <<lastManifest, settings, installed, disk, ops, recon, evq, ui, now, sent, boot>>

\* ------------------------------------------------------------------------
\* Specification SpecInstall: one ADDON_INSTALL at a time, over a family of
\* catalogs, archives, install folders and I/O faults.
\* ------------------------------------------------------------------------

\* index.ts 23-25, 112-115: module and startup-function variables at launch.
BootIdle ==
  [pc |-> "init",               \* position in the app.whenReady() function
   splash |-> FALSE,            \* splashWindow exists
   guardArmed |-> FALSE,        \* splash hang guard timer
   timeoutArmed |-> FALSE,      \* startupTimeout timer
   updater |-> "idle",          \* autoUpdater as seen by runUpdateGate
   result |-> "pending",        \* value runUpdateGate's promise resolved to
   duringGate |-> FALSE,        \* update-downloaded came while the gate was awaited
   installingUpdate |-> FALSE,
   watchdog |-> "none",         \* install watchdog timer
   quitTimer |-> "none",        \* the 800 ms timer that calls quitAndInstall
   stalled |-> FALSE,           \* quitAndInstall was called and the app is still running
   quit |-> FALSE,              \* the app has exited
   mainWindow |-> FALSE,        \* mainWindow is set
   mainWindowOpening |-> FALSE,
   viaFallback |-> FALSE,       \* the window was made by the fatal-error fallback
   created |-> 0]               \* calls of createWindow

InitQuiet ==
  /\ ops = [o \in OpIds |-> IdleOp]
  /\ recon = IdleRecon
  /\ evq = <<>>
  /\ ui = [a \in AddonIds |-> "none"]
  /\ now = 0
  /\ xt = IdleXt
  /\ sent = [o \in OpIds |-> <<>>]
  /\ boot = BootIdle

InstallCatalogs ==
  {<<MkAddon("a1", names, raw, [stable |-> MkChannel("2.0", sha, urlOk)])>> :
     names \in {<<>>, <<"A">>, <<"A", "B">>}, raw \in BOOLEAN,
     sha \in {"ab12", "AB12"}, urlOk \in BOOLEAN}

\* sha256File yields lower-case hex.

InstallTrees ==
  {MakeTree(l, ka, kb, d, FALSE, "2.0", 5) :
     l \in {<<>>, <<"W", "Community">>}, ka \in {"direct", "bare"},
     kb \in {"none", "direct"}, d \in BOOLEAN}

InstallDisks ==
  {[p \in DiskPaths |->
      IF p = <<"p1", "A">> THEN a
      ELSE IF p = <<"p1", "B">> THEN b
      ELSE IF p = <<"p1", stageName("A")>> THEN r
      ELSE Absent] :
     a \in {Absent, "1.0"}, b \in {Absent, "1.0"}, r \in {Absent, Partial}}

\* The disk-space collaborator's answers, around the required amount for the
\* archives of InstallTrees.
InstallFrees ==
  {0, requiredBytesFromInstalledSize(0), requiredBytesFromInstalledSize(5) - 1,
   300 * 1024 * 1024}

InitInstall ==
  /\ InitQuiet
  /\ lastManifest \in {MkManifest(c) : c \in InstallCatalogs}
  /\ settings = [installPath |-> "p1", communityPath |-> Null]
  /\ installed = <<>>
  /\ disk \in InstallDisks

NextInstall ==
  \/ IpcAddonInstall(1, "a1", "stable")
  \/ InstallDownload(1, {"ab12", "ffff"}, InstallTrees, Faulty)
  \/ InstallVerify(1)
  \/ InstallExtract(1, Faulty)
  \/ InstallResolve(1)
  \/ InstallDiskGuard(1, InstallFrees)
  \/ AtomicBegin(1, Faulty)
  \/ AtomicStage(1, Faulty)
  \/ AtomicSwapBackup(1, Faulty)
  \/ AtomicSwapMove(1, Faulty)
  \/ AtomicCleanupBackup(1, Faulty)
  \/ AtomicRollback(1, Faulty)
  \/ InstallEmitDone(1)
  \/ IpcInstallCommit(1)
  \/ UiDeliver

SpecInstall == InitInstall /\ [][NextInstall]_vars


\* ------------------------------------------------------------------------
\* Properties of SpecInstall
\* ------------------------------------------------------------------------
InstallOps == {o \in OpIds : ops[o].kind = "install"}
Downloaded(op) == op.actual # Null

\* C1 (digest gate): an install whose downloaded file's digest differs from the
\* channel's expected digest, letter case ignored, ends in ChecksumMismatch
\* without having run extraction, resolution, the disk guard or the atomic
\* installer and without touching the install folder; an install whose digest
\* equals the expected one up to letter case never ends in ChecksumMismatch.
C1_DigestGate ==
  \A o \in InstallOps :
    LET op == ops[o]
        differs == toLowerCase(op.actual) # toLowerCase(op.channel.sha256)
    IN Downloaded(op) =>
         /\ differs => /\ op.pc \in {"verify", "failed"}
                       /\ op.pc = "failed" => op.error = "ChecksumMismatch"
                       /\ op.ran = {}
                       /\ disk = op.preDisk
         /\ ~differs => ~(op.pc = "failed" /\ op.error = "ChecksumMismatch")

C1_Witness ==
  \E o \in InstallOps :
    /\ ops[o].pc = "failed" /\ ops[o].error = "ChecksumMismatch"
    /\ ops[o].actual = "ffff" /\ ops[o].channel.sha256 = "AB12"

C4_DiskGuard ==
  \A o \in InstallOps :
    LET op == ops[o]
    IN ("guard" \in op.ran
        /\ op.free < requiredBytesFromInstalledSize(extractedBytesOf(op))) =>
         /\ op.pc = "failed" /\ op.error = "InsufficientSpace"
         /\ "atomic" \notin op.ran
         /\ disk = op.preDisk

C4_Witness ==
  \E o \in InstallOps :
    /\ ops[o].pc = "failed" /\ ops[o].error = "InsufficientSpace"
    /\ ops[o].addon.allowRawInstall
    /\ ops[o].free = requiredBytesFromInstalledSize(extractedBytesOf(ops[o])) - 1
    /\ \E p \in DiskPaths : disk[p] # Absent


\* C7 (strict policy): when the catalog addon does not allow permissive
\* install, every unit handed to the atomic installer is a directory of the
\* extracted archive with manifest.json at its root, with expected folder
\* names given and with an empty expected list (auto-detect) alike.
C7_StrictPolicy ==
  \A o \in InstallOps :
    LET op == ops[o]
    IN (op.addon.allowRawInstall # TRUE /\ "atomic" \in op.ran) =>
         \A i \in 1..Len(op.packages) :
           /\ isDirectory(op.tree, op.packages[i].srcPath)
           /\ isFile(op.tree, Append(op.packages[i].srcPath, "manifest.json"))

\* C11 (scratch cleanup): when installAddon has ended, by success or by a
\* failure at any stage, removal of the scratch directory it created for the
\* attempt has been attempted.
C11_ScratchCleanup ==
  \A o \in InstallOps :
    (OpEnded(ops[o]) /\ ops[o].scratch # "none") => ops[o].scratch = "removed"

PhaseRank(phase) ==
  CASE phase = "downloading" -> 1
    [] phase = "verifying" -> 2
    [] phase = "extracting" -> 3
    [] phase = "installing" -> 4
    [] phase = "done" -> 5
    [] OTHER -> 0

\* C12 (progress ordering): among the progress events one install operation
\* has emitted, successful or failed, overallPercent never decreases from an
\* event that carries one to a later event that carries one, and the phase
\* never moves backward in the order downloading, verifying, extracting,
\* installing, done.
C12_ProgressOrdering ==
  \A o \in InstallOps :
    \A i, j \in 1..Len(sent[o]) :
      i < j =>
        /\ PhaseRank(sent[o][i].phase) <= PhaseRank(sent[o][j].phase)
        /\ \A a \in sent[o][i].overallPercent, b \in sent[o][j].overallPercent : a <= b

\* The stages that may have run when an install ends with the given error.
StagesBefore(error) ==
  CASE error \in {"InstallPathNotSet", "ChannelConflict", "AddonNotFound",
                  "ChannelNotAvailable", "InvalidUrl", "DownloadError",
                  "ChecksumMismatch"} -> {}
    [] error = "ExtractError" -> {"extract"}
    [] error = "PackageNotFound" -> {"extract", "resolve"}
    [] error = "InsufficientSpace" -> {"extract", "resolve", "guard"}
    [] OTHER -> {"extract", "resolve", "guard", "atomic"}

\* C24 (fail-fast pipeline): when a stage of an install request fails, no later
\* stage runs, no 'done' event is emitted for the operation, the persisted
\* record is what it was before the request (the record changes only in the
\* step that completes a request), and the request ends with that one error.
C24_FailFast ==
  [][\A o \in OpIds :
       ops'[o].kind = "install" =>
         /\ installed' # installed => (ops[o].pc = "cleanup" /\ ops'[o].pc = "done")
         /\ ops'[o].pc = "failed" =>
              /\ ops'[o].error # Null
              /\ ops'[o].ran = StagesBefore(ops'[o].error)
              /\ \A i \in 1..Len(sent'[o]) : sent'[o][i].phase # "done"
              /\ installed' = installed]_vars

\* A second request for an installed addon has failed at the disk guard; the
\* record of the first install is still there.
C24_Witness ==
  /\ ops[1].pc = "failed" /\ ops[1].error = "InsufficientSpace"
  /\ "a1" \in DOMAIN installed
  /\ Len(sent[1]) > 0

CatalogVersion(addonId, channelKey) ==
  LET i == CHOOSE k \in 1..Len(lastManifest.addons) : lastManifest.addons[k].id = addonId
  IN lastManifest.addons[i].channels[channelKey].version

\* C26 (successful install postcondition): when an install has succeeded,
\* every unit's destination holds the content staged from its source, no
\* stage or backup directory of a unit remains, the last progress event is
\* 'done' at 100, and the persisted record carries the requested channel, the
\* channel's catalog version, the install path used and the list of the
\* units' destinations.
C26_InstallPostcondition ==
  \A o \in InstallOps :
    LET op == ops[o]
        stages == stagesOf(op)
    IN op.pc = "done" =>
         /\ \A i \in 1..Len(stages) :
              /\ disk[stages[i].dst] = unitContent(op.tree, stages[i].src)
              /\ disk[stages[i].stage] = Absent
              /\ disk[stages[i].backup] = Absent
         /\ sent[o] # <<>>
         /\ sent[o][Len(sent[o])] = [phase |-> "done", overallPercent |-> {100}]
         /\ op.addonId \in DOMAIN installed
         /\ installed[op.addonId].installedChannel = op.channelKey
         /\ installed[op.addonId].installedVersion = CatalogVersion(op.addonId, op.channelKey)
         /\ installed[op.addonId].installPath = settings.installPath
         /\ installed[op.addonId].installedPaths =
              [i \in 1..Len(stages) |-> joinPath(settings.installPath, stages[i].folderName)]

\* An install of two units has succeeded over an existing folder A and an
\* earlier staging remnant.
C26_Witness ==
  /\ ops[1].pc = "done" /\ ops[1].kind = "install"
  /\ Len(ops[1].packages) = 2
  /\ ops[1].preDisk[joinPath("p1", "A")] = "1.0"
  /\ ops[1].preDisk[joinPath("p1", stageName("A"))] = Partial
  /\ disk[joinPath("p1", "A")] = "2.0"

\* C28 (staging precedes swapping): a step of the atomic installer changes a
\* destination folder only in the swap phase, when every unit not yet swapped
\* is completely copied into its staging directory, or in the rollback of
\* units already moved aside; an install that fails while staging ends with
\* every destination folder as it was when the request arrived.
C28_StagingPrecedesSwapping ==
  [][\A o \in OpIds :
       LET op == ops[o]
           stages == stagesOf(op)
           n == Len(stages)
       IN (op.kind = "install"
             /\ op.pc \in {"aClean", "aStage", "aSwap", "aBackups", "aRollback"})
          => /\ (\E i \in 1..n : disk'[stages[i].dst] # disk[stages[i].dst])
                  => \/ /\ op.pc = "aSwap"
                        /\ \A j \in op.idx..n :
                             disk[stages[j].stage] = unitContent(op.tree, stages[j].src)
                     \/ /\ op.pc = "aRollback"
                        /\ op.error \notin {"StageError", "PackageFolderMissing"}
                        /\ Len(op.movedToBackup) > 0
             /\ (ops'[o].pc = "failed" /\ ops'[o].error = "StageError")
                  => \A i \in 1..n : disk'[stages[i].dst] = op.preDisk[stages[i].dst]]_vars

\* Staging of the second of two units has failed after the first was staged,
\* over a community folder that held the first unit's destination.
C28_Witness ==
  /\ ops[1].pc = "failed" /\ ops[1].error = "StageError"
  /\ Len(ops[1].packages) = 2 /\ ops[1].idx = 2
  /\ ops[1].preDisk[stagesOf(ops[1])[1].dst] = "1.0"
  /\ disk[stagesOf(ops[1])[1].dst] = "1.0"

\* C31 (policy selection): the resolution step of an install takes the
\* outcome of the permissive resolver exactly when the catalog addon's
\* allowRawInstall is true; otherwise it takes the outcome of the strict
\* resolver, and a strict failure fails the install whatever the permissive
\* resolver would have found.
C31_PolicySelection ==
  [][\A o \in OpIds :
       LET op == ops[o]
           raw == resolveRawInstallSources(op.tree, op.addon.id,
                                           op.addon.packageFolderNames)
           strict == resolveStrict(op.tree, op.addon)
           Outcome(ok, packages) ==
             IF ok THEN ops'[o].pc = "guard" /\ ops'[o].packages = packages
             ELSE /\ ops'[o].pc = "failed"
                  /\ ops'[o].error = "PackageNotFound"
                  /\ ops'[o].packages = <<>>
       IN (op.kind = "install" /\ op.pc = "resolve" /\ ops'[o] # op)
          => IF op.addon.allowRawInstall = TRUE
             THEN Outcome(raw.ok, raw.packages)
             ELSE Outcome(strict.ok, strict.packages)]_vars

\* A strict install has failed at resolution on an archive in which the
\* permissive resolver finds every expected folder.
C31_Witness ==
  /\ ops[1].kind = "install" /\ ops[1].pc = "failed"
  /\ ops[1].error = "PackageNotFound"
  /\ ops[1].addon.allowRawInstall = FALSE
  /\ ops[1].addon.packageFolderNames # <<>>
  /\ resolveRawInstallSources(ops[1].tree, "a1", ops[1].addon.packageFolderNames).ok

\* C34 (busy state is released): once every install or uninstall has ended,
\* by success or by error, and the renderer has handled every progress
\* event, no addon is busy.
C34_BusyReleased ==
  ((\A o \in OpIds : OpEnded(ops[o])) /\ evq = <<>>)
    => \A a \in DOMAIN ui : ~isBusy(ui[a])

\* ------------------------------------------------------------------------
\* Specification SpecRecon: ADDON_RECONCILE runs, one after another, over a
\* family of stores, install folders and catalogs, while the user edits the
\* folder, the catalog is reloaded and time passes.
\* ------------------------------------------------------------------------
ReconCatalogs ==
  {<<>>,
   <<MkAddon("a1", <<"A", "B">>, FALSE,
             [stable |-> MkChannel("1.0", "ab12", TRUE),
              beta |-> MkChannel("2.0", "ab12", TRUE)])>>,
   <<MkAddon("a1", <<>>, FALSE,
             [stable |-> MkChannel("2.0", "ab12", TRUE),
              beta |-> MkChannel("2.0", "ab12", TRUE)])>>}

ReconRecords ==
  {[addonId |-> "a1", installed |-> TRUE, installedChannel |-> c,
    installedVersion |-> v, installPath |-> "p1", installedAt |-> 0,
    installedPaths |-> ps] :
     c \in {"stable", "beta", Unknown}, v \in {"1.0", Unknown},
     ps \in {<<joinPath("p1", "A")>>, <<joinPath("p1", "A"), joinPath("p1", "B")>>}}

ReconDisks ==
  {[p \in DiskPaths |->
      IF p = <<"p1", "A">> THEN a
      ELSE IF p = <<"p1", "B">> THEN b
      ELSE IF p = <<"p1", "a1">> THEN c
      ELSE Absent] :
     a \in {Absent, "1.0"}, b \in {Absent, "2.0"}, c \in {Absent, "2.0"}}

InitRecon ==
  /\ InitQuiet
  /\ lastManifest \in {NoManifestLoaded} \cup {MkManifest(c) : c \in ReconCatalogs}
  /\ settings \in {[installPath |-> ip, communityPath |-> Null] : ip \in {Null, "p1"}}
  /\ installed \in {<<>>} \cup {[a \in {"a1"} |-> r] : r \in ReconRecords}
  /\ disk \in ReconDisks

NextRecon ==
  \/ ReconStart
  \/ ReconFetched({MkManifest(c) : c \in ReconCatalogs})
  \/ ReconScan(Faulty)
  \/ ReconMeta
  \/ ReconExisting
  \/ ReconNew
  \/ ManifestFetch(ReconCatalogs)
  \/ UserEditsFolder({"A"}, {"2.0", NoManifest})
  \/ Tick

SpecRecon == InitRecon /\ [][NextRecon]_vars

\* C8 (reconciliation idempotence): when two reconcile runs in a row have both
\* read the install folder, and neither the folder nor the catalog changed from
\* the start of the first to the return of the second, the records the second
\* run leaves (installedAt and installedChannel included) are those the first
\* run left.
C8_ReconcileIdempotent ==
  recon.pairOk => /\ recon.prevOut = recon.pairFirst
                  /\ installed = recon.prevOut

\* Two such runs happened and the first one had changed the store: it created
\* a record stamped with a time that has since passed.
C8_Witness ==
  /\ recon.pairOk
  /\ "a1" \in DOMAIN installed
  /\ installed["a1"].installedAt > 0
  /\ now > installed["a1"].installedAt


\* The folders of the last scan that the catalog maps to the addon.
observedFoldersOf(addonId) ==
  LET found == foundByAddon(recon.communityDirs, folderToAddon(recon.addons))
  IN IF addonId \in DOMAIN found THEN found[addonId] ELSE <<>>

\* C14 (keep/delete rule): when the run treats the existing records, a record
\* with none of its expected folders observed is kept unchanged if at least one
\* of its recorded installedPaths still exists and is deleted if none does; a
\* record is never deleted while one of its expected folders is observed.
C14_KeepDeleteRule ==
  [][(recon.pc = "existing" /\ recon'.pc = "new") =>
       \A a \in DOMAIN installed :
         IF observedFoldersOf(a) = <<>>
         THEN IF \E i \in 1..Len(installed[a].installedPaths) :
                    diskExists(disk, installed[a].installedPaths[i])
              THEN a \in DOMAIN installed' /\ installed'[a] = installed[a]
              ELSE a \notin DOMAIN installed'
         ELSE a \in DOMAIN installed']_vars

\* The run has just treated a record with two recorded paths, none of its
\* expected folders observed and one recorded folder left: the record is kept.
C14_Witness ==
  /\ recon.pc = "new"
  /\ "a1" \in DOMAIN recon.installed
  /\ observedFoldersOf("a1") = <<>>
  /\ Len(recon.installed["a1"].installedPaths) = 2
  /\ diskExists(disk, recon.installed["a1"].installedPaths[1])
  /\ ~diskExists(disk, recon.installed["a1"].installedPaths[2])
  /\ "a1" \in DOMAIN installed /\ installed["a1"] = recon.installed["a1"]

\* C15 (update frame): when the run treats an existing record with at least one
\* expected folder observed, installedChannel, installPath and installedAt keep
\* their stored values, and installedVersion changes only when the stored
\* value was 'unknown' and a version was read from disk.
C15_UpdateFrame ==
  [][(recon.pc = "existing" /\ recon'.pc = "new") =>
       \A a \in DOMAIN installed :
         observedFoldersOf(a) # <<>> =>
           /\ a \in DOMAIN installed'
           /\ installed'[a].installedChannel = installed[a].installedChannel
           /\ installed'[a].installPath = installed[a].installPath
           /\ installed'[a].installedAt = installed[a].installedAt
           /\ (installed'[a].installedVersion # installed[a].installedVersion =>
                 /\ installed[a].installedVersion = Unknown
                 /\ inferredVersion(observedFoldersOf(a), recon.folderMeta)
                      = installed'[a].installedVersion)]_vars

\* C16 (untracked folders): a record the run creates for an addon without a
\* record carries as installedChannel a channel whose catalog version equals
\* the version read from disk, and 'unknown' whenever no channel matches, the
\* case where no version could be read included.
C16_UntrackedChannel ==
  [][(recon.pc = "new" /\ recon'.pc = "idle") =>
       \A a \in AddonIds :
         (a \notin DOMAIN installed /\ a \in DOMAIN installed') =>
           LET read == inferredVersion(observedFoldersOf(a), recon.folderMeta)
               matching == {k \in Range(ChannelKeys) :
                              \E i \in 1..Len(recon.addons) :
                                /\ recon.addons[i].id = a
                                /\ k \in DOMAIN recon.addons[i].channels
                                /\ recon.addons[i].channels[k].version = read}
           IN IF matching # {}
              THEN installed'[a].installedChannel \in matching
              ELSE installed'[a].installedChannel = Unknown]_vars

\* C18 (reconcile without base path): with neither install path nor community
\* path set, the run deletes exactly the records none of whose recorded folders
\* exists any more (a record with a recorded path still present is kept),
\* leaves every other record unchanged, creates no record, fetches no catalog
\* and returns without mapping folders to addons.
C18_NoBasePath ==
  [][(recon.pc = "idle" /\ recon' # recon /\ basePathOf(settings) = Null
        /\ disk' = disk /\ lastManifest' = lastManifest /\ settings' = settings) =>
       /\ recon'.pc = "idle"
       /\ DOMAIN installed' \subseteq DOMAIN installed
       /\ \A a \in DOMAIN installed :
            IF \E i \in 1..Len(installed[a].installedPaths) :
                 diskExists(disk, installed[a].installedPaths[i])
            THEN a \in DOMAIN installed' /\ installed'[a] = installed[a]
            ELSE a \notin DOMAIN installed']_vars

\* ------------------------------------------------------------------------
\* Specification SpecPaths: ADDON_RECONCILE runs while the user moves the
\* configured install path between two folders.  The addon was installed
\* under p1; its folder may exist under either path.
\* ------------------------------------------------------------------------
PathBases == {"p1", "p2"}

PathDisks ==
  {[p \in PathBases \X UnitNames |->
      IF p = <<"p1", "A">> THEN a
      ELSE IF p = <<"p1", "B">> THEN b
      ELSE IF p = <<"p2", "A">> THEN c
      ELSE Absent] :
     a \in {Absent, "1.0"}, b \in {Absent, "1.0"}, c \in {Absent, "1.0"}}

InitPaths ==
  /\ InitQuiet
  /\ lastManifest = MkManifest(<<MkAddon("a1", <<"A", "B">>, FALSE,
                                         [stable |-> MkChannel("1.0", "ab12", TRUE)])>>)
  /\ settings = [installPath |-> "p1", communityPath |-> Null]
  /\ installed \in {<<>>} \cup
       {[a \in {"a1"} |->
           [addonId |-> "a1", installed |-> TRUE, installedChannel |-> "stable",
            installedVersion |-> "1.0", installPath |-> "p1", installedAt |-> 0,
            installedPaths |-> ps]] :
          ps \in {<<joinPath("p1", "A")>>, <<joinPath("p1", "A"), joinPath("p1", "B")>>}}
  /\ disk \in PathDisks

NextPaths ==
  \/ SettingsSet(PathBases \cup {Null})
  \/ ReconStart
  \/ ReconScan(Reliable)
  \/ ReconMeta
  \/ ReconExisting
  \/ ReconNew

SpecPaths == InitPaths /\ [][NextPaths]_vars

\* C13 (installedPaths invariant): once a reconciliation run has completed, and
\* until something changes again, every path in every record's installedPaths
\* names a folder that exists on disk and lies under that record's installPath,
\* also when the configured install path was changed before the run.
C13_InstalledPaths ==
  (recon.pc = "idle" /\ recon.havePrev) =>
    \A a \in DOMAIN installed :
      \A i \in 1..Len(installed[a].installedPaths) :
        /\ diskExists(disk, installed[a].installedPaths[i])
        /\ installed[a].installedPaths[i][1] = installed[a].installPath

\* ------------------------------------------------------------------------
\* Specification SpecAmbig: ADDON_RECONCILE over catalogs of two addons whose
\* expected folders overlap, by the same name, by names that differ in case
\* only, or through the addon-id convention.
\* ------------------------------------------------------------------------
AmbigChannels == [stable |-> MkChannel("2.0", "ab12", TRUE)]

AmbigCatalogs ==
  {<<MkAddon("a1", <<"A", "B">>, FALSE, AmbigChannels),
     MkAddon("a2", <<"a", "W">>, FALSE, AmbigChannels)>>,
   <<MkAddon("a1", <<"A">>, FALSE, AmbigChannels),
     MkAddon("a2", <<"A", "W">>, FALSE, AmbigChannels)>>,
   <<MkAddon("a1", <<>>, FALSE, AmbigChannels),
     MkAddon("a2", <<"a1", "B">>, FALSE, AmbigChannels)>>,
   <<MkAddon("a2", <<"a1", "B">>, FALSE, AmbigChannels),
     MkAddon("a1", <<>>, FALSE, AmbigChannels)>>}

AmbigStores ==
  {<<>>} \cup
  {[x \in {rec.addonId} |-> rec] :
     rec \in {[addonId |-> a, installed |-> TRUE, installedChannel |-> "stable",
               installedVersion |-> "1.0", installPath |-> "p1", installedAt |-> 0,
               installedPaths |-> <<joinPath("p1", f)>>] :
                 a \in {"a1", "a2"}, f \in {"A", "W"}}}

AmbigDisks ==
  {[p \in DiskPaths |->
      IF p = <<"p1", "A">> THEN a
      ELSE IF p = <<"p1", "B">> THEN b
      ELSE IF p = <<"p1", "W">> THEN w
      ELSE IF p = <<"p1", "a1">> THEN c
      ELSE Absent] :
     a \in {Absent, "1.0"}, b \in {Absent, "1.0"}, w \in {Absent, "1.0"},
     c \in {Absent, "1.0"}}

InitAmbig ==
  /\ InitQuiet
  /\ lastManifest \in {MkManifest(c) : c \in AmbigCatalogs}
  /\ settings = [installPath |-> "p1", communityPath |-> Null]
  /\ installed \in AmbigStores
  /\ disk \in AmbigDisks

NextAmbig ==
  \/ ReconStart
  \/ ReconScan(Reliable)
  \/ ReconMeta
  \/ ReconExisting
  \/ ReconNew

SpecAmbig == InitAmbig /\ [][NextAmbig]_vars

\* Lower-cased folder names listed in packageFolderNames by more than one addon.
AmbiguousNames(addons) ==
  {toLowerCase(addons[i].packageFolderNames[k]) :
     <<i, k>> \in {<<i, k>> \in (1..Len(addons)) \X (1..3) :
                     /\ k <= Len(addons[i].packageFolderNames)
                     /\ \E j \in 1..Len(addons), l \in 1..3 :
                          /\ l <= Len(addons[j].packageFolderNames)
                          /\ addons[j].id # addons[i].id
                          /\ toLowerCase(addons[j].packageFolderNames[l])
                               = toLowerCase(addons[i].packageFolderNames[k])}}

\* Does the catalog make `dir` an expected folder of addon a?
Expects(addons, a, dir) ==
  \E i \in 1..Len(addons) :
    /\ addons[i].id = a
    /\ \/ \E k \in 1..Len(addons[i].packageFolderNames) :
            toLowerCase(addons[i].packageFolderNames[k]) = toLowerCase(dir)
       \/ /\ addons[i].packageFolderNames = <<>>
          /\ toLowerCase(addons[i].id) = toLowerCase(dir)

\* C17 (ambiguous folder names): a folder name, compared case-insensitively,
\* that more than one catalog addon lists as an expected folder maps to no
\* addon: whenever the run creates or updates a record, one of the addon's
\* expected folders with an unambiguous name was observed, and no folder with
\* an ambiguous name enters the record.
C17_AmbiguousFolders ==
  [][((recon.pc = "existing" /\ recon'.pc = "new") \/
      (recon.pc = "new" /\ recon'.pc = "idle")) =>
       \A a \in Range(AddonOrder) :
         (a \in DOMAIN installed' /\
            (a \notin DOMAIN installed \/ installed'[a] # installed[a])) =>
           /\ \E dir \in Range(recon.communityDirs) :
                /\ Expects(recon.addons, a, dir)
                /\ toLowerCase(dir) \notin AmbiguousNames(recon.addons)
           /\ \A i \in 1..Len(installed'[a].installedPaths) :
                toLowerCase(installed'[a].installedPaths[i][2])
                  \notin AmbiguousNames(recon.addons)]_vars

\* A run has returned with a folder of an ambiguous name on disk in no record,
\* while the unambiguous folder W gave addon a2 a new record.
C17_Witness ==
  /\ recon.pc = "idle" /\ recon.havePrev
  /\ diskExists(disk, joinPath("p1", "A"))
  /\ "a" \in AmbiguousNames(lastManifest.addons)
  /\ "a1" \notin DOMAIN installed
  /\ "a2" \in DOMAIN installed
  /\ installed["a2"].installedChannel = Unknown
  /\ installed["a2"].installedPaths = <<joinPath("p1", "W")>>

\* C36 (order independence of the folder map): the folder-name map a
\* reconciliation run builds from its catalog equals the map built from the
\* same addons in the opposite order.
C36_OrderIndependence ==
  recon.pc \in {"existing", "new"}
    => folderToAddon(recon.addons) = folderToAddon(Reverse(recon.addons))

\* ------------------------------------------------------------------------
\* Specification SpecRaw: installs of an addon with allowRawInstall and no
\* packageFolderNames, over archives of zero, one or two top-level folders and
\* zero, one or three loose files, one of them possibly with ".." in its name.
\* ------------------------------------------------------------------------
RawCatalog ==
  <<MkAddon("a1", <<>>, TRUE, [stable |-> MkChannel("2.0", "ab12", TRUE)])>>

RawTrees ==
  {[dirs |-> {<<d>> : d \in ds},
    files |-> {<<d, "data.bin">> : d \in ds} \cup {<<f>> : f \in fs},
    pkgVersion |-> "2.0", fsize |-> 5] :
     ds \in SUBSET {"A", "B"},
     fs \in {{}, {"readme.txt"}, {"x..y"}, {"readme.txt", "x..y"},
             {"data.bin", "manifest.json", "readme.txt"}}}

RawDisks ==
  {[p \in DiskPaths |->
      IF p = <<"p1", "A">> THEN a
      ELSE IF p = <<"p1", "a1">> THEN c
      ELSE Absent] :
     a \in {Absent, "1.0"}, c \in {Absent, "1.0"}}

InitRaw ==
  /\ InitQuiet
  /\ lastManifest = MkManifest(RawCatalog)
  /\ settings = [installPath |-> "p1", communityPath |-> Null]
  /\ installed = <<>>
  /\ disk \in RawDisks

NextRaw ==
  \/ IpcAddonInstall(1, "a1", "stable")
  \/ InstallDownload(1, {"ab12"}, RawTrees, Reliable)
  \/ InstallVerify(1)
  \/ InstallExtract(1, Reliable)
  \/ InstallResolve(1)
  \/ InstallDiskGuard(1, {0, 300 * 1024 * 1024})
  \/ AtomicBegin(1, Reliable)
  \/ AtomicStage(1, Faulty)
  \/ AtomicSwapBackup(1, Reliable)
  \/ AtomicSwapMove(1, Reliable)
  \/ AtomicCleanupBackup(1, Reliable)
  \/ AtomicRollback(1, Reliable)
  \/ InstallEmitDone(1)
  \/ IpcInstallCommit(1)
  \/ UiDeliver

SpecRaw == InitRaw /\ [][NextRaw]_vars

\* A name with a path separator or a parent reference in it.
HasSeparatorOrParentRef(name) == name \in {"x..y", "..", "a/b"}

\* What lies below `root` in tree t, as paths relative to root.
Below(t, root) ==
  [dirs |-> {SubSeq(d, Len(root) + 1, Len(d)) :
               d \in {x \in t.dirs : IsPrefixPath(root, x) /\ x # root}},
   files |-> {SubSeq(f, Len(root) + 1, Len(f)) :
                f \in {x \in t.files : IsPrefixPath(root, x)}}]

\* C19 (permissive resolution without explicit folder names): when the
\* extraction has exactly one top-level directory and no loose top-level file,
\* the resolver yields exactly one unit named after and sourced from that
\* directory; otherwise it yields exactly one unit named after the addon id
\* whose content is a copy of every top-level entry except those whose name
\* holds a path separator or a parent reference.
C19_PermissiveResolution ==
  [][\A o \in OpIds :
       (/\ ops[o].pc = "resolve" /\ ops'[o].pc # "resolve"
        /\ ops[o].addon.allowRawInstall = TRUE
        /\ ops[o].addon.packageFolderNames = <<>>) =>
         LET t == ops[o].tree
             topDirs == {d \in t.dirs : Len(d) = 1}
             topFiles == {f \in t.files : Len(f) = 1}
             units == ops'[o].packages
         IN /\ ops'[o].pc = "guard"
            /\ Len(units) = 1
            /\ IF Cardinality(topDirs) = 1 /\ topFiles = {}
               THEN /\ <<units[1].folderName>> \in topDirs
                    /\ units[1].srcPath = <<units[1].folderName>>
                    /\ Below(ops'[o].tree, units[1].srcPath) = Below(t, units[1].srcPath)
               ELSE /\ units[1].folderName = ops[o].addonId
                    /\ Below(ops'[o].tree, units[1].srcPath) =
                         [dirs |-> {d \in t.dirs : ~HasSeparatorOrParentRef(d[1])},
                          files |-> {f \in t.files : ~HasSeparatorOrParentRef(f[1])}]]_vars

\* The resolver has bundled an archive of loose files, one of them with a
\* parent reference in its name, into one unit named after the addon id.
C19_Witness ==
  /\ ops[1].pc = "guard"
  /\ ops[1].packages = <<[folderName |-> "a1", srcPath |-> RawRoot]>>
  /\ <<"x..y">> \in ops[1].tree.files
  /\ <<"readme.txt">> \in ops[1].tree.files
  /\ Below(ops[1].tree, RawRoot).files = {<<"readme.txt">>}

\* The entries of the extraction directory in an invocation's work tree.
Extracted(t) ==
  [dirs |-> {d \in t.dirs : d[1] # ".."}, files |-> {f \in t.files : f[1] # ".."}]

\* C20 (empty archive under permissive policy): an install under the
\* permissive policy without explicit names whose extraction holds no
\* installable content (no top-level entry, or only entries skipped as unsafe)
\* fails at resolution with the package-not-found error, installs nothing and
\* writes no record.
C20_EmptyArchive ==
  \A o \in InstallOps :
    LET op == ops[o]
        x == Extracted(op.tree)
    IN (/\ op.addon.allowRawInstall = TRUE
        /\ op.addon.packageFolderNames = <<>>
        /\ "resolve" \in op.ran
        /\ \A p \in x.dirs \cup x.files : HasSeparatorOrParentRef(p[1])) =>
         /\ op.pc = "failed"
         /\ op.error = "PackageNotFound"
         /\ disk = op.preDisk
         /\ op.addonId \notin DOMAIN installed

\* ------------------------------------------------------------------------
\* Specification SpecStrict: installs of an addon under the strict policy with
\* one or two expected folder names, over archives that lay the packages out
\* at the root, under a wrapper, under Community or under wrapper/Community,
\* with the manifest at the package root, one level deeper or missing, and
\* over archives that hold a folder of the expected name in two places.
\* ------------------------------------------------------------------------
StrictCatalogs ==
  {<<MkAddon("a1", names, FALSE, [stable |-> MkChannel("2.0", "ab12", TRUE)])>> :
     names \in {<<"A">>, <<"A", "B">>}}

TreeUnion(t1, t2) ==
  [dirs |-> t1.dirs \cup t2.dirs, files |-> t1.files \cup t2.files,
   pkgVersion |-> t1.pkgVersion, fsize |-> t1.fsize]

StrictLayouts == {<<>>, <<"W">>, <<"Community">>, <<"W", "Community">>}

StrictTrees ==
  {MakeTree(l, ka, kb, d, FALSE, "2.0", 5) :
     l \in StrictLayouts, ka \in {"direct", "nested", "bare"},
     kb \in {"none", "direct"}, d \in BOOLEAN}
  \cup
  {TreeUnion(MakeTree(<<>>, "nested", "none", FALSE, FALSE, "2.0", 5),
             MakeTree(<<"Community">>, "direct", kb, FALSE, FALSE, "2.0", 5)) :
     kb \in {"none", "direct"}}

InitStrict ==
  /\ InitQuiet
  /\ lastManifest \in {MkManifest(c) : c \in StrictCatalogs}
  /\ settings = [installPath |-> "p1", communityPath |-> Null]
  /\ installed = <<>>
  /\ disk \in RawDisks

NextStrict ==
  \/ IpcAddonInstall(1, "a1", "stable")
  \/ InstallDownload(1, {"ab12"}, StrictTrees, Reliable)
  \/ InstallVerify(1)
  \/ InstallExtract(1, Reliable)
  \/ InstallResolve(1)
  \/ InstallDiskGuard(1, {0, 300 * 1024 * 1024})
  \/ AtomicBegin(1, Reliable)
  \/ AtomicStage(1, Faulty)
  \/ AtomicSwapBackup(1, Reliable)
  \/ AtomicSwapMove(1, Reliable)
  \/ AtomicCleanupBackup(1, Reliable)
  \/ AtomicRollback(1, Reliable)
  \/ InstallEmitDone(1)
  \/ IpcInstallCommit(1)
  \/ UiDeliver

SpecStrict == InitStrict /\ [][NextStrict]_vars

\* The candidate roots of an extraction: the extraction root, its sole child
\* directory, a child named Community, the sole child's Community child.
CommonRoots(t) ==
  LET top == {d \in t.dirs : Len(d) = 1}
  IN {<<>>}
     \cup (IF Cardinality(top) = 1 THEN top ELSE {})
     \cup ({<<"Community">>} \cap t.dirs)
     \cup (IF Cardinality(top) = 1
           THEN {Append(d, "Community") : d \in top} \cap t.dirs ELSE {})

\* The candidate roots directly under which every expected folder lies with
\* its manifest.json.
HoldsAll(t, names) ==
  {R \in CommonRoots(t) :
     \A i \in 1..Len(names) :
       /\ Append(R, names[i]) \in t.dirs
       /\ Append(Append(R, names[i]), "manifest.json") \in t.files}

\* C21 (strict resolution over candidate roots): when every expected folder
\* lies with its manifest.json directly under one common candidate root,
\* strict resolution succeeds and yields exactly one unit per expected name,
\* sourced from that folder.
C21_StrictCandidateRoots ==
  \A o \in InstallOps :
    LET op == ops[o]
        names == op.addon.packageFolderNames
    IN (/\ op.addon.allowRawInstall # TRUE
        /\ names # <<>>
        /\ "resolve" \in op.ran
        /\ HoldsAll(op.tree, names) # {}) =>
         /\ op.error # "PackageNotFound"
         /\ Len(op.packages) = Len(names)
         /\ \E R \in HoldsAll(op.tree, names) :
              \A i \in 1..Len(names) :
                op.packages[i] = [folderName |-> names[i], srcPath |-> Append(R, names[i])]

\* Does each expected name name exactly one directory of the tree?
NamedOnce(t, names) ==
  \A i \in 1..Len(names) :
    Cardinality({d \in t.dirs : toLowerCase(d[Len(d)]) = toLowerCase(names[i])}) = 1

\* C21, amended: when every expected folder lies with its manifest.json
\* directly under one common candidate root, strict resolution succeeds and
\* yields exactly one unit per expected name, in the order of the names; each
\* unit is sourced from that folder when no other directory of the archive
\* bears an expected name.
C21_StrictFirstRoot ==
  \A o \in InstallOps :
    LET op == ops[o]
        names == op.addon.packageFolderNames
    IN (/\ op.addon.allowRawInstall # TRUE
        /\ names # <<>>
        /\ "resolve" \in op.ran
        /\ HoldsAll(op.tree, names) # {}) =>
         /\ op.error # "PackageNotFound"
         /\ Len(op.packages) = Len(names)
         /\ \A i \in 1..Len(names) : op.packages[i].folderName = names[i]
         /\ NamedOnce(op.tree, names) =>
              \E R \in HoldsAll(op.tree, names) :
                \A i \in 1..Len(names) : op.packages[i].srcPath = Append(R, names[i])

\* Layout W/Community/A/manifest.json (with B beside it) and expected names
\* A, B have been resolved to W/Community/A and W/Community/B.
C21_Witness ==
  /\ "resolve" \in ops[1].ran
  /\ ops[1].addon.packageFolderNames = <<"A", "B">>
  /\ <<"W", "Community", "A", "manifest.json">> \in ops[1].tree.files
  /\ ops[1].packages = <<[folderName |-> "A", srcPath |-> <<"W", "Community", "A">>],
                          [folderName |-> "B", srcPath |-> <<"W", "Community", "B">>]>>

\* No candidate root resolves every expected name: the bounded scan decides.
FellBack(t, names) ==
  \A k \in 1..Len(buildCandidateRoots(t)) :
    Len(foundAtRoot(t, buildCandidateRoots(t)[k], names)) # Len(names)

\* C22 (auto-detect outcome): when strict resolution falls back to the bounded
\* scan, it succeeds only if the scan finds exactly one candidate set across
\* the candidate roots and that set matches the full expected count; with no
\* package, several packages or fewer packages than expected names it fails.
C22_AutoDetectOutcome ==
  \A o \in InstallOps :
    LET op == ops[o]
        names == op.addon.packageFolderNames
    IN (/\ op.addon.allowRawInstall # TRUE
        /\ names # <<>>
        /\ "resolve" \in op.ran
        /\ FellBack(op.tree, names)) =>
         IF autoDetectFallback(op.tree).ok /\ Len(names) = 1
         THEN op.error # "PackageNotFound" /\ Len(op.packages) = Len(names)
         ELSE op.error = "PackageNotFound" /\ op.packages = <<>>

\* ------------------------------------------------------------------------
\* Specification SpecLayout: installs, under either policy, of an addon whose
\* catalog entry names its folder "A" or "A/inner", from archives that hold
\* the package at A or at A/inner.
\* ------------------------------------------------------------------------
LayoutCatalogs ==
  {<<MkAddon("a1", names, raw, [stable |-> MkChannel("2.0", "ab12", TRUE)])>> :
     names \in {<<"A">>, <<"A/inner">>}, raw \in BOOLEAN}

LayoutTrees ==
  {MakeTree(<<>>, ka, "none", d, FALSE, "2.0", 5) :
     ka \in {"direct", "nested"}, d \in BOOLEAN}

InitLayout ==
  /\ InitQuiet
  /\ lastManifest \in {MkManifest(c) : c \in LayoutCatalogs}
  /\ settings = [installPath |-> "p1", communityPath |-> Null]
  /\ installed = <<>>
  /\ disk \in RawDisks

NextLayout ==
  \/ IpcAddonInstall(1, "a1", "stable")
  \/ InstallDownload(1, {"ab12"}, LayoutTrees, Reliable)
  \/ InstallVerify(1)
  \/ InstallExtract(1, Reliable)
  \/ InstallResolve(1)
  \/ InstallDiskGuard(1, {0, 300 * 1024 * 1024})
  \/ AtomicBegin(1, Reliable)
  \/ AtomicStage(1, Faulty)
  \/ AtomicSwapBackup(1, Reliable)
  \/ AtomicSwapMove(1, Reliable)
  \/ AtomicCleanupBackup(1, Reliable)
  \/ AtomicRollback(1, Reliable)
  \/ InstallEmitDone(1)
  \/ IpcInstallCommit(1)
  \/ UiDeliver

SpecLayout == InitLayout /\ [][NextLayout]_vars

\* path.join(base, name) as a sequence of path segments.
RealPath(p) == <<p[1]>> \o splitName(p[2])

\* C23 (install layout): every path the atomic installer creates, replaces or
\* removes is a direct child of the configured install path; no path outside
\* it is touched and no deeper nesting is produced.
C23_InstallLayout ==
  [][\A p \in DiskPaths :
       disk'[p] # disk[p] =>
         /\ Len(RealPath(p)) = 2
         /\ RealPath(p)[1] = settings.installPath]_vars

\* A directory called name lies directly under root or one directory below.
NamedDirUnder(t, root, name, p) ==
  /\ isDirectory(t, p)
  /\ IsPrefixPath(root, p)
  /\ Len(p) - Len(root) \in {1, 2}
  /\ toLowerCase(Last(p)) = toLowerCase(name)

Locatable(t, name) ==
  \E root \in Range(buildCandidateRoots(t)), p \in t.dirs :
    NamedDirUnder(t, root, name, p)

\* C32 (permissive resolution with explicit names): a permissive install
\* with expected names either resolves every name to an existing directory of
\* that name, directly under a candidate root or one wrapper level below,
\* manifest or not, or, when some name cannot be located, fails with no unit
\* resolved.
C32_PermissiveExplicitNames ==
  \A o \in InstallOps :
    LET op == ops[o]
        names == op.addon.packageFolderNames
        t == op.tree
    IN (op.addon.allowRawInstall = TRUE /\ names # <<>> /\ "resolve" \in op.ran)
       => IF \A i \in 1..Len(names) : Locatable(t, names[i])
          THEN /\ op.error # "PackageNotFound"
               /\ Len(op.packages) = Len(names)
               /\ \A i \in 1..Len(names) :
                    /\ op.packages[i].folderName = names[i]
                    /\ \E root \in Range(buildCandidateRoots(t)) :
                         NamedDirUnder(t, root, names[i], op.packages[i].srcPath)
          ELSE /\ op.error = "PackageNotFound"
               /\ op.packages = <<>>
               /\ op.pc = "failed"

\* ------------------------------------------------------------------------
\* Specification SpecGuard: installs of one package of 2 to 14 bytes while the
\* disk-space collaborator reports free space around the required amount.
\* ------------------------------------------------------------------------
GuardCatalog ==
  <<MkAddon("a1", <<"A">>, FALSE, [stable |-> MkChannel("2.0", "ab12", TRUE)])>>

GuardTrees ==
  {MakeTree(<<>>, "direct", "none", FALSE, FALSE, "2.0", fsize) : fsize \in 1..7}

GuardFrees == {200 * 1024 * 1024 + k : k \in 0..18}

InitGuard ==
  /\ InitQuiet
  /\ lastManifest = MkManifest(GuardCatalog)
  /\ settings = [installPath |-> "p1", communityPath |-> Null]
  /\ installed = <<>>
  /\ disk \in RawDisks

NextGuard ==
  \/ IpcAddonInstall(1, "a1", "stable")
  \/ InstallDownload(1, {"ab12"}, GuardTrees, Reliable)
  \/ InstallVerify(1)
  \/ InstallExtract(1, Reliable)
  \/ InstallResolve(1)
  \/ InstallDiskGuard(1, GuardFrees)
  \/ AtomicBegin(1, Reliable)
  \/ AtomicStage(1, Faulty)
  \/ AtomicSwapBackup(1, Reliable)
  \/ AtomicSwapMove(1, Reliable)
  \/ AtomicCleanupBackup(1, Reliable)
  \/ AtomicRollback(1, Reliable)
  \/ InstallEmitDone(1)
  \/ IpcInstallCommit(1)
  \/ UiDeliver

SpecGuard == InitGuard /\ [][NextGuard]_vars

\* ceil(x * 1.2): the least integer n with 5n >= 6x.
CeilOfSixFifths(x) ==
  CHOOSE n \in 0..(2 * x + 1) : 5 * n >= 6 * x /\ 5 * (n - 1) < 6 * x

\* C27 (required-bytes formula): the disk guard requires
\* ceil(extractedBytes * 1.2) + 200 MiB and rejects the install exactly when
\* the free bytes reported are fewer; free bytes equal to the requirement are
\* accepted.
C27_RequiredBytes ==
  \A o \in InstallOps :
    LET op == ops[o]
        required == CeilOfSixFifths(extractedBytesOf(op)) + 200 * 1024 * 1024
    IN "guard" \in op.ran =>
         ((op.error = "InsufficientSpace") <=> (op.free < required))

\* The guard has accepted an install of 4 extracted bytes with exactly
\* ceil(4.8) + 200 MiB free.
C27_Witness ==
  /\ "guard" \in ops[1].ran
  /\ extractedBytesOf(ops[1]) = 4
  /\ ops[1].free = 5 + 200 * 1024 * 1024
  /\ ops[1].pc = "aClean"

\* C33 (conservative reconciliation on missing inputs): with a base path set,
\* a reconciliation run changes no record before it holds a non-empty catalog
\* and has read the install folder; a run whose catalog is empty goes no
\* further than the fetch, and a run never changes a record while its
\* catalog is empty.
C33_ConservativeReconcile ==
  [][/\ (recon.pc \in {"fetch", "scan"}
           \/ (recon.pc = "idle" /\ basePathOf(settings) # Null))
          => installed' = installed
     /\ (recon.pc # "idle" /\ recon.addons = <<>>) => installed' = installed
     /\ (recon'.pc \notin {"idle", "fetch"}) => recon'.addons # <<>>]_vars

\* A run over an empty catalog has returned and left in place a record whose
\* folder is missing from the install path.
C33_Witness ==
  /\ recon.pc = "idle" /\ recon.havePrev
  /\ lastManifest.loaded /\ lastManifest.addons = <<>>
  /\ settings.installPath = "p1"
  /\ "a1" \in DOMAIN installed
  /\ recon.prevOut = installed
  /\ ~diskExists(disk, installed["a1"].installedPaths[1])

\* ------------------------------------------------------------------------
\* Specification SpecStore: installs and uninstalls of one addon, one at a
\* time, interleaved with reconcile runs and catalog reloads; file operations
\* succeed.
\* ------------------------------------------------------------------------
StoreCatalogs ==
  {<<MkAddon("a1", <<"A">>, FALSE,
             [stable |-> MkChannel(vs, "ab12", TRUE),
              beta |-> MkChannel("2.0", "ab12", TRUE),
              dev |-> MkChannel("1.0", "ab12", TRUE)])>> : vs \in Versions}

StoreTrees == {MakeTree(<<>>, "direct", "none", FALSE, FALSE, "2.0", 5)}
StoreFrees == {300 * 1024 * 1024}

InitStore ==
  /\ InitQuiet
  /\ lastManifest \in {NoManifestLoaded} \cup {MkManifest(c) : c \in StoreCatalogs}
  /\ settings = [installPath |-> "p1", communityPath |-> Null]
  /\ installed = <<>>
  /\ disk = EmptyDisk

InstallSteps(o, trees, frees, io) ==
  \/ InstallDownload(o, {"ab12"}, trees, io)
  \/ InstallVerify(o)
  \/ InstallExtract(o, io)
  \/ InstallResolve(o)
  \/ InstallDiskGuard(o, frees)
  \/ AtomicBegin(o, io)
  \/ AtomicStage(o, io)
  \/ AtomicSwapBackup(o, io)
  \/ AtomicSwapMove(o, io)
  \/ AtomicCleanupBackup(o, io)
  \/ InstallEmitDone(o)
  \/ IpcInstallCommit(o)

UninstallSteps(o, io) ==
  \/ UninstallRemove(o, io)
  \/ IpcUninstallCommit(o)

Quiescent == recon.pc = "idle" /\ ~AnyOpInFlight

NextStore ==
  \/ Quiescent /\ \E ch \in ChannelSet : IpcAddonInstall(1, "a1", ch)
  \/ IpcInstallFetched(1, {MkManifest(c) : c \in StoreCatalogs})
  \/ InstallSteps(1, StoreTrees, StoreFrees, Reliable)
  \/ Quiescent /\ IpcAddonUninstall(1, "a1")
  \/ UninstallSteps(1, Reliable)
  \/ UiDeliver
  \/ Quiescent /\ ReconStart
  \/ ReconFetched({MkManifest(c) : c \in StoreCatalogs})
  \/ ReconScan(Reliable)
  \/ ReconMeta
  \/ ReconExisting
  \/ ReconNew
  \/ Quiescent /\ ManifestFetch(StoreCatalogs)

SpecStore == InitStore /\ [][NextStore]_vars


\* An ADDON_INSTALL invocation arrives in this step and takes slot o.
InstallRequested(o) ==
  OpEnded(ops[o]) /\ ops'[o] # ops[o] /\ ops'[o].kind = "install"

\* C5 (channel exclusivity): with an install path configured, an install
\* request for an addon whose record carries installedChannel stable, beta or
\* dev and which names a different channel fails at once with ChannelConflict:
\* no progress event is sent (no download starts), the install folder is
\* untouched and the store is unchanged.
C5_ChannelExclusive ==
  [][\A o \in OpIds :
       LET a == ops'[o].addonId
       IN (/\ InstallRequested(o)
           /\ basePathOf(settings) # Null
           /\ a \in DOMAIN installed
           /\ installed[a].installedChannel \in ChannelSet
           /\ installed[a].installedChannel # ops'[o].channelKey)
          => /\ ops'[o].pc = "failed"
             /\ ops'[o].error = "ChannelConflict"
             /\ evq' = evq
             /\ disk' = disk
             /\ installed' = installed]_vars

C5_Witness ==
  \E o \in OpIds :
    /\ ops[o].pc = "failed" /\ ops[o].error = "ChannelConflict"
    /\ ops[o].channelKey = "beta"
    /\ "a1" \in DOMAIN installed
    /\ installed["a1"].installedChannel = "stable"
    /\ disk[<<"p1", "A">>] = "2.0"

\* C6 (single-channel invariant): no step changes the installedChannel of a
\* record that stays in the store from one of stable, beta, dev to another
\* one of them.
C6_SingleChannel ==
  [][\A a \in AddonIds :
       (/\ a \in DOMAIN installed
        /\ a \in DOMAIN installed'
        /\ installed[a].installedChannel \in ChannelSet
        /\ installed'[a].installedChannel \in ChannelSet)
       => installed'[a].installedChannel = installed[a].installedChannel]_vars

\* ------------------------------------------------------------------------
\* Specification SpecRace: the renderer issues installs and uninstalls of one
\* addon through its busy gate and the main process serves every request it
\* receives.
\* ------------------------------------------------------------------------
RaceCatalog ==
  <<MkAddon("a1", <<"A">>, FALSE, [stable |-> MkChannel("2.0", "ab12", TRUE)])>>

InitRace ==
  /\ InitQuiet
  /\ lastManifest = MkManifest(RaceCatalog)
  /\ settings = [installPath |-> "p1", communityPath |-> Null]
  /\ installed = <<>>
  /\ disk \in {[EmptyDisk EXCEPT ![<<"p1", "A">>] = c] : c \in {Absent, "1.0"}}

NextRace ==
  \/ \E o \in OpIds : IpcAddonInstall(o, "a1", "stable")
  \/ \E o \in OpIds : InstallSteps(o, StoreTrees, StoreFrees, Reliable)
  \/ \E o \in OpIds : AtomicRollback(o, Reliable)
  \/ \E o \in OpIds : IpcAddonUninstall(o, "a1")
  \/ \E o \in OpIds : UninstallSteps(o, Reliable)
  \/ UiDeliver

SpecRace == InitRace /\ [][NextRace]_vars


\* C9 (at most one operation per addon): no two invocations for the same
\* addon are in flight at the same time.
C9_OneOperationPerAddon ==
  \A o1, o2 \in OpIds :
    (o1 # o2 /\ OpInFlight(ops[o1]) /\ OpInFlight(ops[o2]))
    => ops[o1].addonId # ops[o2].addonId

\* ------------------------------------------------------------------------
\* Specification SpecOverlap: installs and uninstalls of one addon, one at a
\* time, while the renderer asks for reconcile whenever it mounts.
\* ------------------------------------------------------------------------
NextOverlap ==
  \/ IpcAddonInstall(1, "a1", "stable")
  \/ InstallSteps(1, StoreTrees, StoreFrees, Reliable)
  \/ IpcAddonUninstall(1, "a1")
  \/ UninstallSteps(1, Reliable)
  \/ UiDeliver
  \/ ReconStart
  \/ ReconScan(Reliable)
  \/ ReconMeta
  \/ ReconExisting
  \/ ReconNew

SpecOverlap == InitRace /\ [][NextOverlap]_vars

\* C10 (reconciliation serialized against installs): no reconcile run is under
\* way while an install or uninstall on the same install path is in flight.
C10_ReconcileSerialized ==
  recon.pc # "idle" =>
    \A o \in OpIds : OpInFlight(ops[o]) => ops[o].installPath # recon.basePath

\* C35 (no lost update between reconciliation and install): when a record
\* was written or deleted by an operation after the running reconciliation
\* took its snapshot, a reconciliation step does not put the snapshot's
\* version or install time back into that record, and does not bring a
\* deleted record back.
C35_NoLostUpdate ==
  [][\A a \in DOMAIN recon.installed :
       (recon.pc \in {"existing", "new"} /\ recon'.pc # recon.pc)
       => /\ (a \in DOMAIN installed /\ a \in DOMAIN installed')
               => \A f \in {"installedVersion", "installedAt"} :
                    installed[a][f] # recon.installed[a][f]
                      => installed'[a][f] # recon.installed[a][f]
          /\ (a \notin DOMAIN installed /\ a \in DOMAIN installed')
               => installed'[a].installedVersion # recon.installed[a].installedVersion]_vars


\* ------------------------------------------------------------------------
\* Specification SpecExtract: the extractor alone, over archives of up to
\* MaxEntries entries.
\* ------------------------------------------------------------------------
InitExtract ==
  /\ InitQuiet
  /\ lastManifest = NoManifestLoaded
  /\ settings = [installPath |-> "p1", communityPath |-> Null]
  /\ installed = <<>>
  /\ disk = EmptyDisk

NextExtract ==
  \/ XtOpen(XtArchives)
  \/ XtTotals
  \/ XtOnEntry(Faulty)
  \/ XtEnd

SpecExtract == InitExtract /\ [][NextExtract]_vars

escapes(entry) == ~isInside(ExtractDir, pathJoin(ExtractDir, entry))

UninstallCatalog ==
  <<MkAddon("a1", <<"A", "B">>, FALSE, [stable |-> MkChannel("2.0", "ab12", TRUE)])>>

UninstallTrees == {MakeTree(<<>>, "direct", "direct", FALSE, FALSE, "2.0", 5)}

InitUninstall ==
  /\ InitQuiet
  /\ lastManifest = MkManifest(UninstallCatalog)
  /\ settings = [installPath |-> "p1", communityPath |-> Null]
  /\ installed = <<>>
  /\ disk \in InstallDisks

NextUninstall ==
  \/ IpcAddonInstall(1, "a1", "stable")
  \/ InstallSteps(1, UninstallTrees, StoreFrees, Reliable)
  \/ IpcAddonUninstall(1, "a1")
  \/ UninstallRemove(1, Faulty)
  \/ IpcUninstallCommit(1)
  \/ UiDeliver

SpecUninstall == InitUninstall /\ [][NextUninstall]_vars

\* C29 (uninstall): with a persisted record, the record is deleted only by
\* the step that ends an uninstall whose every installedPaths entry has been
\* removed from disk; a failing removal ends the request with the error and
\* the record retained; without a record the request ends at once with disk
\* and records unchanged.
C29_Uninstall ==
  [][\A o \in OpIds :
       LET op == ops[o]
           a == ops'[o].addonId
       IN /\ (op.kind = "uninstall" /\ op.pc = "uRemove" /\ ops'[o].pc = "done")
               => /\ op.paths = installed[op.addonId].installedPaths
                  /\ \A i \in 1..Len(op.paths) : ~diskExists(disk', op.paths[i])
                  /\ op.addonId \notin DOMAIN installed'
          /\ (op.kind = "uninstall" /\ op.pc = "uRemove" /\ ops'[o].pc # "done")
               => installed' = installed
          /\ (op.kind = "uninstall" /\ op.pc = "uRemove" /\ ops'[o].pc = "failed")
               => /\ ops'[o].error = "RemoveError"
                  /\ op.addonId \in DOMAIN installed'
          /\ (FreeSlot(o) /\ ops'[o] # op /\ ops'[o].kind = "uninstall"
                /\ a \notin DOMAIN installed)
               => /\ ops'[o].pc = "done" /\ ops'[o].error = Null
                  /\ disk' = disk /\ installed' = installed]_vars

\* An uninstall has failed at its second path after removing the first, and
\* the record is still stored.
C29_Witness ==
  /\ ops[1].kind = "uninstall" /\ ops[1].pc = "failed" /\ ops[1].idx = 2
  /\ Len(ops[1].paths) = 2
  /\ "a1" \in DOMAIN installed
  /\ ~diskExists(disk, ops[1].paths[1]) /\ diskExists(disk, ops[1].paths[2])

\* ------------------------------------------------------------------------
\* Specification SpecScan: strict installs of archives whose only package
\* folder lies below a chain of plain directories, beside a docs folder at
\* the top, or whose top-level folder A holds the manifest some levels down.
\* ------------------------------------------------------------------------
ScanCatalog ==
  <<MkAddon("a1", <<"A">>, FALSE, [stable |-> MkChannel("2.0", "ab12", TRUE)])>>

Chain(k) == [i \in 1..k |-> "W"]

ScanTrees ==
  {TreeUnion(MakeTree(Chain(k), kind, "none", FALSE, FALSE, "2.0", 5),
             MakeTree(<<>>, "none", "none", TRUE, FALSE, "2.0", 5)) :
     k \in 0..7, kind \in {"direct", "nested"}}
  \cup
  {MakeTree(<<"A">> \o Chain(k), "direct", "none", FALSE, FALSE, "2.0", 5) : k \in 0..3}

InitScan ==
  /\ InitQuiet
  /\ lastManifest = MkManifest(ScanCatalog)
  /\ settings = [installPath |-> "p1", communityPath |-> Null]
  /\ installed = <<>>
  /\ disk \in RawDisks

NextScan ==
  \/ IpcAddonInstall(1, "a1", "stable")
  \/ InstallDownload(1, {"ab12"}, ScanTrees, Reliable)
  \/ InstallVerify(1)
  \/ InstallExtract(1, Reliable)
  \/ InstallResolve(1)
  \/ InstallDiskGuard(1, {0, 300 * 1024 * 1024})
  \/ AtomicBegin(1, Reliable)
  \/ AtomicStage(1, Faulty)
  \/ AtomicSwapBackup(1, Reliable)
  \/ AtomicSwapMove(1, Reliable)
  \/ AtomicCleanupBackup(1, Reliable)
  \/ AtomicRollback(1, Reliable)
  \/ InstallEmitDone(1)
  \/ IpcInstallCommit(1)
  \/ UiDeliver

SpecScan == InitScan /\ [][NextScan]_vars

\* Directories the package scan examined: the counter, less the one that hit
\* the cap.
Examined(st) == IF st.capped THEN st.dirsVisited - 1 ELSE st.dirsVisited

ScanWithinDepth(t) ==
  \A root \in Range(buildCandidateRoots(t)) :
    LET st == scanForPackages(t, root, 6, 3000)
    IN \A i \in 1..Len(st.packages) :
         Len(st.packages[i].folderPath) - Len(root) <= 6

ScanWithinBudget(t) ==
  \A root \in Range(buildCandidateRoots(t)) :
    /\ Examined(scanForPackages(t, root, 6, 3000)) <= 3000
    /\ \A b \in 0..3 : Examined(scanForPackages(t, root, 6, b)) <= b

SearchWithinDepth(t) ==
  \A dir \in t.dirs :
    LET m == findManifestDirWithin(t, dir, 3, 3000)
    IN m # Null => IsPrefixPath(dir, m) /\ Len(m) - Len(dir) <= 3

SearchWithinBudget(t) ==
  \A dir \in t.dirs :
    LET m == findManifestDirWithin(t, dir, 3, 0)
    IN m # Null => m = dir

\* C30 (bounded scans): on every extracted tree the auto-detect scan and the
\* manifest search end, report no directory deeper below their root than 6
\* and 3 levels, and examine no more directories than their visit budget.
C30_BoundedScans ==
  \A o \in InstallOps :
    "resolve" \in ops[o].ran =>
      /\ ScanWithinDepth(ops[o].tree)
      /\ ScanWithinBudget(ops[o].tree)
      /\ SearchWithinDepth(ops[o].tree)
      /\ SearchWithinBudget(ops[o].tree)

\* ------------------------------------------------------------------------
\* Specification SpecRecover: the process may be stopped between the two
\* moves of a swap (installer.ts 1064 and 1067); the app is started again and
\* the addon is installed once more.
\* ------------------------------------------------------------------------
RecoverCatalog ==
  <<MkAddon("a1", <<"A">>, FALSE, [stable |-> MkChannel("2.0", "ab12", TRUE)])>>

InitRecover ==
  /\ InitQuiet
  /\ lastManifest = MkManifest(RecoverCatalog)
  /\ settings = [installPath |-> "p1", communityPath |-> Null]
  /\ installed = <<>>
  /\ disk = [EmptyDisk EXCEPT ![<<"p1", "A">>] = "1.0"]

\* The process ends after `fse.move(s.dst, s.backup)` and before
\* `fse.move(s.stage, s.dst)`: memory is gone, the store and the folders stay.
ProcessInterrupted(o) ==
  /\ ops[o].pc = "aSwap" /\ ops[o].sub = 1
  /\ ops' = [ops EXCEPT ![o] = IdleOp]
  /\ lastManifest' = NoManifestLoaded
  /\ evq' = <<>>
  /\ ui' = [a \in AddonIds |-> "none"]
  /\ sent' = [sent EXCEPT ![o] = <<>>]
  /\ UNCHANGED <<settings, installed, disk, recon, now, xt, boot>>

NextRecover ==
  \/ IpcAddonInstall(1, "a1", "stable")
  \/ IpcInstallFetched(1, {MkManifest(RecoverCatalog)})
  \/ InstallDownload(1, {"ab12"}, StoreTrees, Faulty)
  \/ InstallVerify(1)
  \/ InstallExtract(1, Reliable)
  \/ InstallResolve(1)
  \/ InstallDiskGuard(1, StoreFrees)
  \/ AtomicBegin(1, Reliable)
  \/ AtomicStage(1, Faulty)
  \/ AtomicSwapBackup(1, Reliable)
  \/ AtomicSwapMove(1, Reliable)
  \/ AtomicCleanupBackup(1, Reliable)
  \/ AtomicRollback(1, Reliable)
  \/ InstallEmitDone(1)
  \/ IpcInstallCommit(1)
  \/ UiDeliver
  \/ ProcessInterrupted(1)

SpecRecover == InitRecover /\ [][NextRecover]_vars

\* The install request found the destination moved aside by an interrupted
\* swap: nothing at the destination, the previous content in the backup.
FoundInterruptedSwap(op) ==
  /\ op.kind = "install"
  /\ op.preDisk[<<"p1", "A">>] = Absent
  /\ op.preDisk[<<"p1", backupName("A")>>] # Absent

\* C37 (recovery after an interrupted swap): when an install attempt that
\* found an interrupted swap has ended, the destination holds the previous
\* content or, after a success, the new content; and while the destination
\* holds nothing the backup still holds the previous content.
C37_InterruptedSwapRecovery ==
  \A o \in OpIds :
    LET op == ops[o]
        dst == <<"p1", "A">>
        previous == op.preDisk[<<"p1", backupName("A")>>]
    IN (FoundInterruptedSwap(op) /\ op.pc \in {"done", "failed"})
       => /\ \/ disk[dst] = previous
             \/ op.pc = "done" /\ disk[dst] = op.tree.pkgVersion
          /\ disk[dst] = Absent => disk[<<"p1", backupName("A")>>] = previous

\* ------------------------------------------------------------------------
\* Startup (index.ts 110-545).  Timers fire in any order once armed.
\* ------------------------------------------------------------------------
Others == <<lastManifest, settings, installed, disk, ops, recon, evq, ui, now, xt, sent>>

\* index.ts 153-212
openMainWindowUnguarded(b) ==
  [b EXCEPT !.mainWindowOpening = TRUE, !.mainWindow = TRUE, !.created = @ + 1]

openMainWindow(b) ==
  IF b.mainWindow \/ b.mainWindowOpening THEN b
  ELSE [b EXCEPT !.mainWindowOpening = TRUE, !.mainWindow = TRUE, !.created = @ + 1]

\* index.ts 141-221: the splash is created and the hang guard armed.
BootSplash ==
  /\ boot.pc = "init" /\ ~boot.quit
  /\ boot' = [boot EXCEPT !.pc = "armed", !.splash = TRUE, !.guardArmed = TRUE]
  /\ UNCHANGED Others

\* index.ts 224-231: an unpackaged build opens the main window at once.
BootDev ==
  /\ boot.pc = "armed" /\ ~boot.quit
  /\ boot' = [openMainWindow(boot) EXCEPT !.pc = "ended"]
  /\ UNCHANGED Others

\* index.ts 233-262, 304-356: the startup timeout is armed and the update
\* gate awaited; with no update feed configured the gate is skipped.
BootGate ==
  /\ boot.pc = "armed" /\ ~boot.quit
  /\ \E configured \in BOOLEAN :
       boot' = [boot EXCEPT !.pc = "gate", !.timeoutArmed = TRUE,
                            !.updater = IF configured THEN "checking" ELSE "done",
                            !.result = IF configured THEN "pending" ELSE "skipped"]
  /\ UNCHANGED Others

\* index.ts 384-398: update-available, the download starts.
UpdateAvailable ==
  /\ boot.updater = "checking" /\ ~boot.quit
  /\ boot' = [boot EXCEPT !.updater = "downloading"]
  /\ UNCHANGED Others

\* index.ts 390-397, 443-481: no update, an updater error or a failed
\* download resolve the gate's promise.
UpdaterSettles ==
  /\ boot.updater \in {"checking", "downloading"} /\ ~boot.quit
  /\ \E v \in {"not-available", "error"} :
       /\ boot.updater = "downloading" => v = "error"
       /\ boot' = [boot EXCEPT !.updater = "done", !.result = v]
  /\ UNCHANGED Others

\* index.ts 408-441: update-downloaded.
UpdateDownloaded ==
  /\ boot.updater = "downloading" /\ ~boot.quit
  /\ boot' = [boot EXCEPT !.updater = "downloaded", !.installingUpdate = TRUE,
                          !.watchdog = "armed", !.quitTimer = "armed",
                          !.result = "available",
                          !.duringGate = (boot.pc = "gate")]
  /\ UNCHANGED Others

\* index.ts 260-268 and 291-300: the gate's promise resolved in time.
GateReturns ==
  /\ boot.pc = "gate" /\ boot.result # "pending" /\ ~boot.quit
  /\ boot' = IF boot.result = "available"
             THEN [boot EXCEPT !.pc = "ended", !.installingUpdate = TRUE,
                               !.timeoutArmed = FALSE]
             ELSE [boot EXCEPT !.pc = "manifest"]
  /\ UNCHANGED Others

\* index.ts 269-277: promiseWithTimeout rejected after 15 s.
GateTimesOut ==
  /\ boot.pc = "gate" /\ boot.result = "pending" /\ ~boot.quit
  /\ boot' = [boot EXCEPT !.pc = "manifest"]
  /\ UNCHANGED Others

\* index.ts 279-300: the manifest fetch ended either way; the finally block.
ManifestSettles ==
  /\ boot.pc = "manifest" /\ ~boot.quit
  /\ boot' = [(IF boot.installingUpdate THEN boot ELSE openMainWindow(boot))
               EXCEPT !.pc = "ended", !.timeoutArmed = FALSE]
  /\ UNCHANGED Others

\* index.ts 247-255
StartupTimeoutFires ==
  /\ boot.timeoutArmed /\ ~boot.quit
  /\ boot' = [(IF boot.installingUpdate THEN boot ELSE openMainWindow(boot))
               EXCEPT !.timeoutArmed = FALSE]
  /\ UNCHANGED Others

\* index.ts 214-221
HangGuardFires ==
  /\ boot.guardArmed /\ ~boot.quit
  /\ boot' = [(IF ~boot.installingUpdate /\ boot.splash THEN openMainWindow(boot)
                ELSE boot)
               EXCEPT !.guardArmed = FALSE]
  /\ UNCHANGED Others

\* index.ts 430-438: quitAndInstall is called, then the finally block clears
\* the watchdog; the installer exits the app or it does not.
QuitTimerFires ==
  /\ boot.quitTimer = "armed" /\ ~boot.quit
  /\ \E exits \in BOOLEAN :
       boot' = [boot EXCEPT !.quitTimer = "fired",
                            !.watchdog = IF @ = "armed" THEN "cleared" ELSE @,
                            !.quit = exits, !.stalled = ~exits]
  /\ UNCHANGED Others

\* index.ts 414-428
WatchdogFires ==
  /\ boot.watchdog = "armed" /\ ~boot.quit
  /\ boot' = [openMainWindow([boot EXCEPT !.installingUpdate = FALSE])
               EXCEPT !.watchdog = "fired"]
  /\ UNCHANGED Others

\* index.ts 200-211: ready-to-show of the window made by openMainWindow.
MainReady ==
  /\ boot.mainWindow /\ boot.mainWindowOpening /\ ~boot.viaFallback /\ ~boot.quit
  /\ boot' = [boot EXCEPT !.mainWindowOpening = FALSE, !.splash = FALSE]
  /\ UNCHANGED Others

\* index.ts 532-544: an exception outside the inner try block.
FatalError ==
  /\ boot.pc \in {"init", "armed"} /\ ~boot.quit
  /\ boot' = IF ~boot.mainWindow /\ ~boot.mainWindowOpening
             THEN [boot EXCEPT !.pc = "ended", !.mainWindowOpening = TRUE,
                               !.mainWindow = TRUE, !.created = @ + 1,
                               !.viaFallback = TRUE, !.splash = FALSE]
             ELSE [boot EXCEPT !.pc = "ended", !.splash = FALSE]
  /\ UNCHANGED Others

InitBoot == InitQuiet /\ lastManifest = NoManifestLoaded
            /\ settings = [installPath |-> Null, communityPath |-> Null]
            /\ installed = <<>> /\ disk = EmptyDisk

NextBoot ==
  \/ BootSplash
  \/ BootDev
  \/ BootGate
  \/ UpdateAvailable
  \/ UpdaterSettles
  \/ UpdateDownloaded
  \/ GateReturns
  \/ GateTimesOut
  \/ ManifestSettles
  \/ StartupTimeoutFires
  \/ HangGuardFires
  \/ QuitTimerFires
  \/ WatchdogFires
  \/ MainReady
  \/ FatalError

SpecBoot == InitBoot /\ [][NextBoot]_vars

\* Armed timers fire and awaited steps of the startup function go on; the
\* updater's network events carry no such promise.
SpecBootLive ==
  /\ SpecBoot
  /\ WF_vars(BootSplash) /\ WF_vars(BootGate)
  /\ WF_vars(GateReturns) /\ WF_vars(GateTimesOut) /\ WF_vars(ManifestSettles)
  /\ WF_vars(StartupTimeoutFires) /\ WF_vars(HangGuardFires)
  /\ WF_vars(QuitTimerFires) /\ WF_vars(WatchdogFires) /\ WF_vars(MainReady)

\* C38 (startup fails open after an update install stalls): once an update
\* downloaded during the update gate has been handed to the installer and
\* the app is still running, the watchdog eventually fires, the installing
\* flag is cleared and the main window is opened.
C38_FailsOpen ==
  (boot.stalled /\ boot.duringGate)
    ~> (boot.watchdog = "fired" /\ ~boot.installingUpdate /\ boot.mainWindow)

\* C39 (single main window): createWindow is called at most once during
\* startup, whichever triggers of openMainWindow run and in whatever order.
C39_SingleMainWindow == boot.created <= 1

\* The hang guard fired while the splash was up and the gates completed
\* normally, no update being installed: both called openMainWindow, and one
\* main window exists.
C39_Witness ==
  /\ boot.created = 1 /\ boot.mainWindow /\ ~boot.viaFallback
  /\ boot.pc = "ended" /\ boot.result \in {"not-available", "error", "skipped"}
  /\ ~boot.installingUpdate /\ boot.watchdog = "none"
  /\ ~boot.guardArmed /\ boot.splash /\ boot.mainWindowOpening

====
